---- MODULE Spec2Model ----
(***************************************************************************)
(* A model of the login component of Celeste (src/src/login.rs) and of    *)
(* the rclone RPC wrappers it calls (src/src/rclone.rs).                   *)
(*                                                                         *)
(* Text is modelled structurally: a name or a 2FA code is a sequence of    *)
(* one-character strings, a URL text is a base followed by its path        *)
(* segments, a line of helper output or an engine error string is a        *)
(* sequence of whitespace-delimited words, and a buffer is a sequence of   *)
(* lines.                                                                  *)
(***************************************************************************)
EXTENDS Integers, Sequences, FiniteSets, TLC

\* ------------------------------------------------------------------ bounds

\* The number of authentication attempts (LoginMsg::Authenticate) in a run.
MaxAttempts == 2

\* The number of command futures that may run at the same time.
MaxInFlight == 1

\* Command futures that may run at once under SpecOverlap.
MaxOverlap == 2

\* ------------------------------------------------------------- providers

Providers ==
    {"Dropbox", "GoogleDrive", "Nextcloud", "Owncloud", "PCloud", "ProtonDrive", "WebDav"}

\* Provider::default(): the variant marked #[default].
DefaultProvider == "Dropbox"

rclone_type(p) ==
    CASE p = "Dropbox" -> "dropbox"
      [] p = "GoogleDrive" -> "drive"
      [] p \in {"Nextcloud", "Owncloud", "WebDav"} -> "webdav"
      [] p = "PCloud" -> "pcloud"
      [] p = "ProtonDrive" -> "protondrive"

is_webdav(p) == p \in {"Nextcloud", "Owncloud", "WebDav"}

\* needs_auth_window with WebDav among the providers that get a helper.
needs_auth_window_webdav(p) == p \in {"Dropbox", "GoogleDrive", "PCloud", "WebDav"}

\* `needs_auth_window` of LoginMsg::Authenticate.
needs_auth_window(p) == p \in {"Dropbox", "GoogleDrive", "PCloud"}

LoginFields == {"Name", "Url", "Username", "Password", "Totp"}

\* ------------------------------------------------------------ input texts

Last(s) == s[Len(s)]

\* Texts the user may enter in the name row.
NameTexts == {<<>>, <<"a", "b">>, <<"-", "a">>}

\* Texts the user may enter in the URL row: a base, then the path segments.
\* "https://host" parses as a URL, "host" does not (no scheme).
UrlTexts ==
    {<<>>, <<"host">>, <<"https://host">>, <<"https://host", "remote.php", "dav">>}

UserTexts == {<<>>, <<"u">>}

PassTexts == {<<>>, <<"p">>}

TotpTexts == {<<>>, <<"1", "2", "3", "4", "5", "6">>, <<"1", "2">>, <<"1", "x", "3", "4", "5", "6">>}

Digits == {"0", "1", "2", "3", "4", "5", "6", "7", "8", "9"}

Alnum == Digits \cup {"a", "b", "c", "d", "A", "B"}

\* NAME_REGEX: ^[0-9a-zA-Z_.][0-9a-zA-Z_. -]*[0-9a-zA-Z_.-]$
NameRegexMatch(name) ==
    /\ Len(name) >= 2
    /\ name[1] \in Alnum \cup {"_", "."}
    /\ \A i \in 2..(Len(name) - 1) : name[i] \in Alnum \cup {"_", ".", " ", "-"}
    /\ Last(name) \in Alnum \cup {"_", ".", "-"}

\* Url::parse(text).is_ok(): the text has a scheme.
UrlParses(text) == Len(text) >= 1 /\ text[1] \in {"https://host"}

\* url.path() as its segments: the path is "/" followed by the segments
\* joined by "/".
UrlPath(text) == Tail(text)

\* url.path().contains("/remote.php/"): a segment remote.php followed by a
\* slash, that is, not the last segment.
PathHasRemotePhp(path) == \E i \in 1..(Len(path) - 1) : path[i] = "remote.php"

\* REMOTE_PHP_REGEX.find(path): the leftmost match of /remote\.php/.* .
RemotePhpSegment(path) ==
    LET i == CHOOSE k \in 1..(Len(path) - 1) :
                 /\ path[k] = "remote.php"
                 /\ \A j \in 1..(k - 1) : path[j] # "remote.php"
    IN SubSeq(path, i, Len(path))

NoError == [title |-> "", detail |-> <<>>]

\* ------------------------------------------------------------- variables

VARIABLES
    visible,            \* LoginModel.visible
    provider,           \* LoginModel.provider
    show_login_spinner, \* LoginModel.show_login_spinner
    auth_sender,        \* LoginModel.auth_sender: 0 is None, i the sender of attempt i's channel
    errors,             \* LoginModel.errors
    widgets,            \* the texts, the checkmark, the error css classes, the sensitivities
    alerts,             \* which of the three Alert components are shown
    remotes,            \* the engine's configuration store: name -> record
    att,                \* the command futures started by LoginMsg::Authenticate
    nAtt,               \* how many were started
    outputs,            \* the LoginOutput messages sent to the parent
    ui,                 \* "running", or "panicked" once a message handler panicked
    wrapper,            \* one invocation of a wrapper of rclone::sync
    sup                 \* the supervisor process, its child and the PANIC_FILE

vars ==
    <<visible, provider, show_login_spinner, auth_sender, errors, widgets, alerts,
      remotes, att, nAtt, outputs, ui, wrapper, sup>>

\* The wrappers and the supervisor take no part in a login.
OthersUnchanged == UNCHANGED <<wrapper, sup>>

\* ------------------------------------------------------- field validation

\* The provider the url row's connect_changed closure holds: the clone of
\* model.provider taken when the view is built in init().
UrlInputProvider == DefaultProvider

\* name_input connect_changed: the error message, if any.
NameError(name, existing) ==
    IF name = <<>> THEN NoError
    ELSE IF name \in existing THEN [title |-> "Name already exists", detail |-> <<>>]
    ELSE IF ~NameRegexMatch(name) THEN [title |-> "Invalid server name", detail |-> <<>>]
    ELSE NoError

\* url_input connect_changed: the error message, if any. `p` is the provider
\* the closure captured.
UrlError(text, p) ==
    IF text = <<>> THEN NoError
    ELSE IF UrlParses(text)
         THEN IF p \in {"Nextcloud", "Owncloud"} /\ PathHasRemotePhp(UrlPath(text))
              THEN [title |-> "Invalid server URL", detail |-> RemotePhpSegment(UrlPath(text))]
              ELSE NoError
    ELSE [title |-> "Invalid server URL", detail |-> <<"parse error">>]

\* totp_input connect_changed: the error message, if any.
TotpError(totp) ==
    IF totp = <<>> THEN NoError
    ELSE IF \E i \in 1..Len(totp) : totp[i] \notin Digits
         THEN [title |-> "Invalid 2FA code", detail |-> <<"digits">>]
    ELSE IF Len(totp) # 6
         THEN [title |-> "Invalid 2FA code", detail |-> <<"length">>]
    ELSE NoError

\* The #[watch] set_visible of each row.
RowVisible(field, p) ==
    CASE field = "Name" -> TRUE
      [] field = "Url" -> p \in {"Nextcloud", "Owncloud", "WebDav"}
      [] field \in {"Username", "Password"} ->
            p \in {"Nextcloud", "Owncloud", "ProtonDrive", "WebDav"}
      [] field = "Totp" -> p = "ProtonDrive"

FieldText(w, field) ==
    CASE field = "Name" -> w.name
      [] field = "Url" -> w.url
      [] field = "Username" -> w.username
      [] field = "Password" -> w.password
      [] field = "Totp" -> w.totp

\* LoginMsg::CheckInputs: the sensitivity it gives the login button.
CheckInputs(w, p) ==
    /\ \A f \in {"Name", "Url", "Username", "Password"} :
          RowVisible(f, p) => (FieldText(w, f) # <<>> /\ f \notin w.css)
    /\ (RowVisible("Totp", p) /\ w.totp_check) => (w.totp # <<>> /\ "Totp" \notin w.css)

\* A changed handler's effect on the error css class of its row.
SetCss(css, field, err) == IF err.title # "" THEN css \cup {field} ELSE css \ {field}

\* reset_widgets(): every text emptied and the checkmark cleared; each changed
\* handler then clears its row's error.
ResetWidgets(w) ==
    [w EXCEPT !.name = <<>>, !.url = <<>>, !.username = <<>>, !.password = <<>>,
              !.totp = <<>>, !.totp_check = FALSE, !.css = {}]

ResetErrors(e) == [f \in LoginFields |-> IF f \in {"Name", "Url", "Totp"} THEN NoError ELSE e[f]]

\* The login window takes input: it is shown and sensitive, and no Alert is
\* open over it (an Alert is a modal dialog, AlertSettings's default).
CanUseWindow ==
    /\ ui = "running" /\ visible /\ widgets.root_sensitive
    /\ ~alerts.prep_auth /\ ~alerts.auth

\* ---------------------------------------------------------------- the form

\* LoginMsg::Open, then the LoginMsg::SetProvider(Provider::default()) it sends.
Open ==
    /\ ui = "running" /\ ~visible
    /\ visible' = TRUE
    /\ provider' = DefaultProvider
    /\ errors' = ResetErrors(errors)
    /\ widgets' = [ResetWidgets(widgets) EXCEPT
                     !.login_sensitive = CheckInputs(ResetWidgets(widgets), DefaultProvider)]
    /\ OthersUnchanged /\ UNCHANGED <<show_login_spinner, auth_sender, alerts, remotes, att, nAtt, outputs, ui>>

\* The server-type row's connect_selected_item_notify, then LoginMsg::SetProvider.
SetProvider(p) ==
    /\ CanUseWindow /\ p # provider
    /\ provider' = p
    /\ errors' = ResetErrors(errors)
    /\ widgets' = [ResetWidgets(widgets) EXCEPT
                     !.login_sensitive = CheckInputs(ResetWidgets(widgets), p)]
    /\ OthersUnchanged /\ UNCHANGED <<visible, show_login_spinner, auth_sender, alerts, remotes, att, nAtt,
                   outputs, ui>>

\* name_input connect_changed, then LoginMsg::CheckInputs.
NameChanged(text) ==
    /\ CanUseWindow /\ text # widgets.name
    /\ LET err == NameError(text, DOMAIN remotes)
           w == [widgets EXCEPT !.name = text, !.css = SetCss(@, "Name", err)]
       IN /\ errors' = [errors EXCEPT !["Name"] = err]
          /\ widgets' = [w EXCEPT !.login_sensitive = CheckInputs(w, provider)]
    /\ OthersUnchanged /\ UNCHANGED <<visible, provider, show_login_spinner, auth_sender, alerts, remotes, att,
                   nAtt, outputs, ui>>

\* url_input connect_changed, then LoginMsg::CheckInputs.
UrlChanged(text) ==
    /\ CanUseWindow /\ RowVisible("Url", provider) /\ text # widgets.url
    /\ LET err == UrlError(text, UrlInputProvider)
           w == [widgets EXCEPT !.url = text, !.css = SetCss(@, "Url", err)]
       IN /\ errors' = [errors EXCEPT !["Url"] = err]
          /\ widgets' = [w EXCEPT !.login_sensitive = CheckInputs(w, provider)]
    /\ OthersUnchanged /\ UNCHANGED <<visible, provider, show_login_spinner, auth_sender, alerts, remotes, att,
                   nAtt, outputs, ui>>

\* username_input connect_changed => LoginMsg::CheckInputs.
UsernameChanged(text) ==
    /\ CanUseWindow /\ RowVisible("Username", provider) /\ text # widgets.username
    /\ LET w == [widgets EXCEPT !.username = text]
       IN widgets' = [w EXCEPT !.login_sensitive = CheckInputs(w, provider)]
    /\ OthersUnchanged /\ UNCHANGED <<visible, provider, show_login_spinner, auth_sender, errors, alerts,
                   remotes, att, nAtt, outputs, ui>>

\* password_input connect_changed => LoginMsg::CheckInputs.
PasswordChanged(text) ==
    /\ CanUseWindow /\ RowVisible("Password", provider) /\ text # widgets.password
    /\ LET w == [widgets EXCEPT !.password = text]
       IN widgets' = [w EXCEPT !.login_sensitive = CheckInputs(w, provider)]
    /\ OthersUnchanged /\ UNCHANGED <<visible, provider, show_login_spinner, auth_sender, errors, alerts,
                   remotes, att, nAtt, outputs, ui>>

\* totp_input_checkmark connect_toggled: unchecking empties the text, whose
\* changed handler clears the error; then LoginMsg::CheckInputs.
TotpToggled ==
    /\ CanUseWindow /\ RowVisible("Totp", provider)
    /\ LET active == ~widgets.totp_check
           w == IF active
                THEN [widgets EXCEPT !.totp_check = TRUE]
                ELSE [widgets EXCEPT !.totp_check = FALSE, !.totp = <<>>,
                                     !.css = @ \ {"Totp"}]
       IN /\ errors' = IF active THEN errors ELSE [errors EXCEPT !["Totp"] = NoError]
          /\ widgets' = [w EXCEPT !.login_sensitive = CheckInputs(w, provider)]
    /\ OthersUnchanged /\ UNCHANGED <<visible, provider, show_login_spinner, auth_sender, alerts, remotes, att,
                   nAtt, outputs, ui>>

\* totp_input connect_changed, then LoginMsg::CheckInputs. The row is editable
\* only while its checkmark is active.
TotpChanged(text) ==
    /\ CanUseWindow /\ RowVisible("Totp", provider) /\ widgets.totp_check
    /\ text # widgets.totp
    /\ LET err == TotpError(text)
           w == [widgets EXCEPT !.totp = text, !.css = SetCss(@, "Totp", err)]
       IN /\ errors' = [errors EXCEPT !["Totp"] = err]
          /\ widgets' = [w EXCEPT !.login_sensitive = CheckInputs(w, provider)]
    /\ OthersUnchanged /\ UNCHANGED <<visible, provider, show_login_spinner, auth_sender, alerts, remotes, att,
                   nAtt, outputs, ui>>

\* ------------------------------------------------------ the OAuth helper

\* The marker of the callback URL line, as a word of that line: a word
\* contains "http://127.0.0.1:53682/auth" if and only if it is in this set.
MarkerWords ==
    {"http://127.0.0.1:53682/auth?state=x", "http://127.0.0.1:53682/auth?state=y"}

L_url == <<"NOTICE:", "http://127.0.0.1:53682/auth?state=x">>
L_line1 == <<"line1">>
L_token == <<"token-value">>
L_blank == <<>>
L_fail == <<"Failed", "to", "authorize">>

Wr(stream, line) == [s |-> stream, line |-> line]

\* What a run of `rclone authorize` writes, in order, and its exit status.
\* 1: the URL on stderr, then "line1\ntoken-value\n\n" on stdout, success.
\* 2: a failure before any URL.  3: the URL on stdout, then a failure.
Scripts ==
    << [writes |-> <<Wr("err", L_url), Wr("out", L_line1), Wr("out", L_token),
                     Wr("out", L_blank)>>, status |-> "ok"],
       [writes |-> <<Wr("err", L_fail)>>, status |-> "fail"],
       [writes |-> <<Wr("out", L_url), Wr("err", L_fail)>>, status |-> "fail"] >>

RECURSIVE Written(_, _, _)
\* The lines among the first n writes of `writes` that went to `stream`.
Written(writes, n, stream) ==
    IF n = 0 THEN <<>>
    ELSE LET rest == Written(writes, n - 1, stream)
         IN IF writes[n].s = stream THEN Append(rest, writes[n].line) ELSE rest

\* line.contains("http://127.0.0.1:53682/auth")
HasMarker(line) == \E k \in 1..Len(line) : line[k] \in MarkerWords

\* A String, as its whitespace-delimited words and its newlines.
NL == "\n"

\* PushLine with the line pushed without its newline.
PushLineNoNewline(text, line) == text \o line

\* string.push('\n'); buffer.push_str(&string)
PushLine(text, line) == text \o line \o <<NL>>

\* The String a reader thread has built of the lines `buf`.
BufferText(buf) ==
    LET text[n \in 0..Len(buf)] ==
            IF n = 0 THEN <<>> ELSE PushLine(text[n - 1], buf[n])
    IN text[Len(buf)]

\* format!("{}\n{}", stdout, stderr)
Format(out, err) == out \o <<NL>> \o err

\* str::lines(): the pieces between newlines; a newline at the very end
\* starts no further line.
Lines(text) ==
    LET nl == {k \in 1..Len(text) : text[k] = NL}
        \* where the j-th newline is; past the last one, the end of the text
        at(j) == IF j = 0 THEN 0
                 ELSE IF j > Cardinality(nl) THEN Len(text) + 1
                 ELSE CHOOSE k \in nl : Cardinality({m \in nl : m <= k}) = j
        n == Cardinality(nl) + (IF text # <<>> /\ text[Len(text)] # NL THEN 1 ELSE 0)
    IN [j \in 1..n |-> SubSeq(text, at(j - 1) + 1, at(j) - 1)]

\* format!("{}\n{}", stdout, stderr).lines(), computed on the Strings of the
\* two buffers.
TextLines(out, err) == Lines(Format(BufferText(out), BufferText(err)))

\* The same, on the buffers as lines: every buffered line ends with a
\* newline, so the separator adds one empty line between the two buffers.
OutputLines(out, err) == out \o <<L_blank>> \o err

\* output.lines().find(marker).map(|line| line.split_whitespace().last()):
\* <<>> when no line has the marker, else <<url>>.
FindUrl(lines) ==
    IF \E k \in 1..Len(lines) : HasMarker(lines[k])
    THEN LET k == CHOOSE j \in 1..Len(lines) :
                      HasMarker(lines[j]) /\ \A m \in 1..(j - 1) : ~HasMarker(lines[m])
         IN <<Last(lines[k])>>
    ELSE <<>>

\* rclone_stdout.lines().rev().nth(1): <<>> when there are fewer than two
\* lines, else <<the second-to-last line>>.
SecondToLast(buf) == IF Len(buf) >= 2 THEN <<buf[Len(buf) - 1]>> ELSE <<>>

\* --------------------------------------------------------- the RPC engine

E_host == <<"dial", "tcp:", "lookup", "host:", "no", "such", "host">>
E_pass == <<"The", "password", "is", "not", "correct">>
E_other == <<"connection", "refused">>
E_section == <<"didn't", "find", "section", "in", "config", "file">>
E_io == <<"failed", "to", "save", "config", "file">>

\* The error strings operations/stat may fail with on a remote that exists.
StatErrors == {E_host, E_pass, E_other}

\* error.contains(needle), on whitespace-delimited words.
Contains(error, needle) ==
    \E k \in 0..(Len(error) - Len(needle)) :
        \A j \in 1..Len(needle) : error[k + j] = needle[j]

\* Classify without its "no such host" rule.
ClassifyNoHost(error) ==
    IF Contains(error, <<"Temporary", "failure", "in", "name", "resolution">>)
    THEN "NameResolution"
    ELSE IF \/ Contains(error, <<"The", "password", "is", "not", "correct">>)
            \/ Contains(error, <<"Incorrect", "login", "credentials">>)
            \/ Contains(error, <<"password", "was", "incorrect">>)
    THEN "InvalidPassword"
    ELSE IF Contains(error, <<"this", "account", "requires", "a", "2FA", "code">>)
    THEN "MissingTotp"
    ELSE "ValidityUnknown"

\* Classify with the password rule tried before the name resolution rule.
ClassifyPasswordFirst(error) ==
    IF \/ Contains(error, <<"The", "password", "is", "not", "correct">>)
       \/ Contains(error, <<"Incorrect", "login", "credentials">>)
       \/ Contains(error, <<"password", "was", "incorrect">>)
    THEN "InvalidPassword"
    ELSE IF \/ Contains(error, <<"Temporary", "failure", "in", "name", "resolution">>)
            \/ Contains(error, <<"no", "such", "host">>)
    THEN "NameResolution"
    ELSE IF Contains(error, <<"this", "account", "requires", "a", "2FA", "code">>)
    THEN "MissingTotp"
    ELSE "ValidityUnknown"

\* Classify without its "Incorrect login credentials" rule.
ClassifyNoIncorrect(error) ==
    IF \/ Contains(error, <<"Temporary", "failure", "in", "name", "resolution">>)
       \/ Contains(error, <<"no", "such", "host">>)
    THEN "NameResolution"
    ELSE IF \/ Contains(error, <<"The", "password", "is", "not", "correct">>)
            \/ Contains(error, <<"password", "was", "incorrect">>)
    THEN "InvalidPassword"
    ELSE IF Contains(error, <<"this", "account", "requires", "a", "2FA", "code">>)
    THEN "MissingTotp"
    ELSE "ValidityUnknown"

\* Classify without its 2FA rule.
ClassifyNoTotp(error) ==
    IF \/ Contains(error, <<"Temporary", "failure", "in", "name", "resolution">>)
       \/ Contains(error, <<"no", "such", "host">>)
    THEN "NameResolution"
    ELSE IF \/ Contains(error, <<"The", "password", "is", "not", "correct">>)
            \/ Contains(error, <<"Incorrect", "login", "credentials">>)
            \/ Contains(error, <<"password", "was", "incorrect">>)
    THEN "InvalidPassword"
    ELSE "ValidityUnknown"

\* The classification of a failed probe in LoginMsg::Authenticate.
Classify(error) ==
    IF \/ Contains(error, <<"Temporary", "failure", "in", "name", "resolution">>)
       \/ Contains(error, <<"no", "such", "host">>)
    THEN "NameResolution"
    ELSE IF \/ Contains(error, <<"The", "password", "is", "not", "correct">>)
            \/ Contains(error, <<"Incorrect", "login", "credentials">>)
            \/ Contains(error, <<"password", "was", "incorrect">>)
    THEN "InvalidPassword"
    ELSE IF Contains(error, <<"this", "account", "requires", "a", "2FA", "code">>)
    THEN "MissingTotp"
    ELSE "ValidityUnknown"

Resp(ok, error) == [ok |-> ok, error |-> error]

\* What the engine may answer to config/create and config/delete.
WriteResponses == {Resp(TRUE, <<>>), Resp(FALSE, E_io)}

\* What the engine may answer to operations/stat on remote `name`.
StatResponses(store, name) ==
    IF name \in DOMAIN store
    THEN {Resp(TRUE, <<>>)} \cup {Resp(FALSE, e) : e \in StatErrors}
    ELSE {Resp(FALSE, E_section)}

\* The engine's store after config/create answered `resp`.
StoreCreate(store, name, config, resp) ==
    IF resp.ok
    THEN [n \in DOMAIN store \cup {name} |-> IF n = name THEN config ELSE store[n]]
    ELSE store

\* The engine's store after config/delete answered `resp`.
StoreDelete(store, name, resp) ==
    IF resp.ok THEN [n \in DOMAIN store \ {name} |-> store[n]] ELSE store

Call(method, name, resp) == [method |-> method, name |-> name, ok |-> resp.ok]

\* The url widget value LoginMsg::Authenticate builds.
WidgetUrl(p, url, username) ==
    IF p \in {"Nextcloud", "Owncloud"}
    THEN url \o <<"remote.php", "dav", "files">> \o username
    ELSE url

\* WebDavVendors, serialized with rename_all = "lowercase".
Vendor(p) ==
    CASE p = "Nextcloud" -> "nextcloud"
      [] p = "Owncloud" -> "owncloud"
      [] p = "WebDav" -> "webdav"

\* The RcloneConfigItem of LoginMsg::Authenticate, as config_json() renders it.
ConfigItem(a) ==
    CASE needs_auth_window(a.provider) ->
            [type |-> rclone_type(a.provider), token |-> a.token, url |-> <<>>,
             vendor |-> "", user |-> <<>>, pass |-> <<>>, totp |-> <<>>]
      [] is_webdav(a.provider) ->
            [type |-> "webdav", token |-> <<>>, url |-> a.values.url,
             vendor |-> Vendor(a.provider), user |-> a.values.username,
             pass |-> a.values.password, totp |-> <<>>]
      [] a.provider = "ProtonDrive" ->
            [type |-> "protondrive", token |-> <<>>, url |-> <<>>, vendor |-> "",
             user |-> a.values.username, pass |-> a.values.password,
             totp |-> a.values.totp]

\* ------------------------------------------------------------ the attempts

Attempts == 1..MaxAttempts

NoResult == [kind |-> "None", val |-> <<>>, text |-> <<>>, lines |-> <<>>]

OkResult(name) == [kind |-> "Ok", val |-> name, text |-> <<>>, lines |-> <<>>]

\* A LoginCommandErr.
ErrResult(kind, text, lines) == [kind |-> kind, val |-> <<>>, text |-> text, lines |-> lines]

NoValues == [url |-> <<>>, username |-> <<>>, password |-> <<>>, totp |-> <<>>]

\* An attempt that was not started. name_existed and cancel_sent record
\* history: whether config/listremotes held the name when the login was
\* submitted, and whether a cancel request was sent on the channel.
\* stdout_thread and stderr_thread are the two reader threads: "none" before
\* they are spawned, "running" inside their loop, "ended" after it.
IdleAttempt ==
    [pc |-> "idle", provider |-> DefaultProvider, name |-> <<>>, values |-> NoValues,
     script |-> 1, h_state |-> "none", h_pos |-> 0, h_status |-> "none", sigint |-> 0,
     out_buf |-> <<>>, err_buf |-> <<>>, out_snap |-> <<>>,
     chan |-> 0, rx |-> "none", url |-> <<>>, opened |-> 0, token |-> <<>>,
     rpc |-> <<>>, stat_error |-> <<>>, result |-> NoResult, events |-> 0,
     name_existed |-> FALSE, cancel_sent |-> FALSE,
     stdout_thread |-> "none", stderr_thread |-> "none"]

\* The command future and the channel LoginMsg::Authenticate creates.
NewAttempt(p, w, store) ==
    [IdleAttempt EXCEPT
        !.pc = IF needs_auth_window(p) THEN "spawn" ELSE "create",
        !.provider = p,
        !.name = w.name,
        !.values = [url |-> WidgetUrl(p, w.url, w.username), username |-> w.username,
                    password |-> w.password, totp |-> w.totp],
        !.rx = "open",
        !.name_existed = w.name \in DOMAIN store]

\* The command future of attempt i has not ended.
InFlight(i) == att[i].pc \notin {"idle", "delivered", "panicked"}

\* The command future of attempt i is inside get_token.
InGetToken(i) ==
    att[i].pc \in {"url_try_wait", "url_lock_out", "url_lock_err", "open", "tok_recv",
                   "tok_try_wait"}

\* What is kept of an attempt once its output was handled: the command
\* future, its channel, its buffers and its process handle are dropped. The
\* drop of the process handle neither kills the helper nor waits for it: a
\* helper that is still running, with the SIGINT it was sent, goes on.
Delivered(a) ==
    [IdleAttempt EXCEPT !.pc = "delivered", !.events = a.events + 1,
                        !.h_state = IF a.h_state = "running" THEN "running" ELSE "none",
                        !.sigint = IF a.h_state = "running" THEN a.sigint ELSE 0]

UiUnchanged ==
    UNCHANGED <<visible, provider, show_login_spinner, auth_sender, errors, widgets, alerts,
                nAtt, outputs, ui, wrapper, sup>>

\* Fewer than n command futures are running.
CanStart(n) == Cardinality({i \in Attempts : InFlight(i)}) < n

\* LoginMsg::Authenticate.
Authenticate ==
    /\ nAtt < MaxAttempts
    /\ nAtt' = nAtt + 1
    /\ widgets' = [widgets EXCEPT !.root_sensitive = FALSE]
    /\ show_login_spinner' = TRUE
    /\ alerts' = IF needs_auth_window(provider) THEN [alerts EXCEPT !.auth = TRUE] ELSE alerts
    /\ att' = [att EXCEPT ![nAtt + 1] = NewAttempt(provider, widgets, remotes)]
    /\ auth_sender' = IF needs_auth_window(provider) THEN nAtt + 1 ELSE auth_sender
    /\ OthersUnchanged /\ UNCHANGED <<visible, provider, errors, remotes, outputs, ui>>

\* The login button's connect_clicked => LoginMsg::PrepAuthenticate, for a
\* provider other than Google Drive: LoginMsg::Authenticate follows.
PrepAuthenticate ==
    /\ CanUseWindow /\ widgets.login_sensitive
    /\ provider # "GoogleDrive"
    /\ Authenticate

\* LoginMsg::PrepAuthenticate for Google Drive: the confirmation alert is shown.
PrepAuthenticateGoogle ==
    /\ CanUseWindow /\ widgets.login_sensitive
    /\ provider = "GoogleDrive"
    /\ ~alerts.prep_auth
    /\ alerts' = [alerts EXCEPT !.prep_auth = TRUE]
    /\ OthersUnchanged /\ UNCHANGED <<visible, provider, show_login_spinner, auth_sender, errors, widgets,
                   remotes, att, nAtt, outputs, ui>>

\* prep_auth_button connect_clicked => LoginMsg::Authenticate.
PrepAuthButton ==
    /\ ui = "running" /\ alerts.prep_auth /\ ~alerts.auth
    /\ Authenticate

\* A response of the prep_auth alert: connect_receiver(|_, _| {}) ignores it,
\* and the alert closes.
PrepAuthResponse ==
    /\ ui = "running" /\ alerts.prep_auth /\ ~alerts.auth
    /\ alerts' = [alerts EXCEPT !.prep_auth = FALSE]
    /\ OthersUnchanged /\ UNCHANGED <<visible, provider, show_login_spinner, auth_sender, errors, widgets,
                   remotes, att, nAtt, outputs, ui>>

\* The auth alert's response, forwarded as LoginMsg::CancelAuthenticate:
\* self.auth_sender.take().unwrap().send(()).await.unwrap().
CancelAuthenticate ==
    /\ ui = "running" /\ alerts.auth
    /\ alerts' = [alerts EXCEPT !.auth = FALSE]
    /\ auth_sender' = 0
    /\ IF auth_sender # 0 /\ att[auth_sender].rx = "open"
       THEN /\ att' = [att EXCEPT ![auth_sender].chan = 1,
                                   ![auth_sender].cancel_sent = TRUE]
            /\ ui' = ui
       ELSE /\ att' = att
            /\ ui' = "panicked"
    /\ OthersUnchanged /\ UNCHANGED <<visible, provider, show_login_spinner, errors, widgets, remotes, nAtt,
                   outputs>>

\* ------------------------------------------------------------- get_token

\* Command::new("rclone")...spawn().unwrap(), and the two reader threads.
Spawn(i) ==
    /\ ui = "running" /\ att[i].pc = "spawn"
    /\ \/ \E k \in 1..Len(Scripts) :
             att' = [att EXCEPT ![i].pc = "url_try_wait", ![i].script = k,
                                ![i].h_state = "running",
                                ![i].stdout_thread = "running",
                                ![i].stderr_thread = "running"]
       \/ att' = [att EXCEPT ![i].pc = "panicked", ![i].rx = "dropped"]
    /\ UNCHANGED remotes /\ UiUnchanged

\* The helper writes its next line to its stdout or stderr pipe.
HelperWrite(i) ==
    /\ att[i].h_state = "running"
    /\ att[i].h_pos < Len(Scripts[att[i].script].writes)
    /\ att' = [att EXCEPT ![i].h_pos = @ + 1]
    /\ UNCHANGED remotes /\ UiUnchanged

\* The helper exits by itself, having written everything.
HelperExit(i) ==
    /\ att[i].h_state = "running"
    /\ att[i].h_pos = Len(Scripts[att[i].script].writes)
    /\ att' = [att EXCEPT ![i].h_state = "exited",
                          ![i].h_status = Scripts[att[i].script].status]
    /\ UNCHANGED remotes /\ UiUnchanged

\* The helper dies of the SIGINT it was sent. Nothing is left of a helper
\* whose process handle was dropped before.
HelperInterrupted(i) ==
    /\ att[i].h_state = "running"
    /\ att[i].sigint > 0
    /\ att' = IF att[i].pc = "delivered"
              THEN [att EXCEPT ![i].h_state = "none", ![i].sigint = 0]
              ELSE [att EXCEPT ![i].h_state = "exited", ![i].h_status = "fail"]
    /\ UNCHANGED remotes /\ UiUnchanged

\* StdoutRead with the line put in front of the buffer.
StdoutReadPrepend(i) ==
    /\ att[i].h_state # "none"
    /\ att[i].pc # "url_lock_err"
    /\ LET w == Written(Scripts[att[i].script].writes, att[i].h_pos, "out")
       IN /\ Len(att[i].out_buf) < Len(w)
          /\ att' = [att EXCEPT ![i].out_buf = <<w[Len(@) + 1]>> \o @]
    /\ UNCHANGED remotes /\ UiUnchanged

\* stdout_thread: the next line of the pipe is pushed to rclone_stdout, under
\* its lock (which the URL poll holds while it locks rclone_stderr).
StdoutRead(i) ==
    /\ att[i].h_state # "none"
    /\ att[i].pc # "url_lock_err"
    /\ LET w == Written(Scripts[att[i].script].writes, att[i].h_pos, "out")
       IN /\ Len(att[i].out_buf) < Len(w)
          /\ att' = [att EXCEPT ![i].out_buf = Append(@, w[Len(@) + 1])]
    /\ UNCHANGED remotes /\ UiUnchanged

\* stderr_thread: the next line of the pipe is pushed to rclone_stderr.
StderrRead(i) ==
    /\ att[i].h_state # "none"
    /\ LET w == Written(Scripts[att[i].script].writes, att[i].h_pos, "err")
       IN /\ Len(att[i].err_buf) < Len(w)
          /\ att' = [att EXCEPT ![i].err_buf = Append(@, w[Len(@) + 1])]
    /\ UNCHANGED remotes /\ UiUnchanged

\* StdoutEof for a reader that leaves its loop only when it is cancelled.
StdoutEofOnCancel(i) ==
    /\ att[i].stdout_thread = "running"
    /\ att[i].h_state = "exited"
    /\ att[i].cancel_sent
    /\ Len(att[i].out_buf) =
          Len(Written(Scripts[att[i].script].writes, att[i].h_pos, "out"))
    /\ att' = [att EXCEPT ![i].stdout_thread = "ended"]
    /\ UNCHANGED remotes /\ UiUnchanged

\* stdout_thread: reader.lines() ends once the helper has exited, which
\* closes the pipe, and every line written to it was read; the closure
\* returns.
StdoutEof(i) ==
    /\ att[i].stdout_thread = "running"
    /\ att[i].h_state = "exited"
    /\ Len(att[i].out_buf) =
          Len(Written(Scripts[att[i].script].writes, att[i].h_pos, "out"))
    /\ att' = [att EXCEPT ![i].stdout_thread = "ended"]
    /\ UNCHANGED remotes /\ UiUnchanged

\* stderr_thread: the same, at the end of the stderr pipe.
StderrEof(i) ==
    /\ att[i].stderr_thread = "running"
    /\ att[i].h_state = "exited"
    /\ Len(att[i].err_buf) =
          Len(Written(Scripts[att[i].script].writes, att[i].h_pos, "err"))
    /\ att' = [att EXCEPT ![i].stderr_thread = "ended"]
    /\ UNCHANGED remotes /\ UiUnchanged

\* UrlTryWait with the stdout buffer, not the stderr buffer, in the error.
UrlTryWaitStdout(i) ==
    /\ ui = "running" /\ att[i].pc = "url_try_wait"
    /\ IF att[i].h_state = "exited"
       THEN att' = [att EXCEPT ![i].pc = "done", ![i].rx = "dropped",
                       ![i].result = ErrResult("AuthServer", <<>>, att[i].out_buf)]
       ELSE att' = [att EXCEPT ![i].pc = "url_lock_out"]
    /\ UNCHANGED remotes /\ UiUnchanged

\* The URL loop's process.try_wait(): an exited helper ends get_token with
\* AuthServer(stderr), and the command with it.
UrlTryWait(i) ==
    /\ ui = "running" /\ att[i].pc = "url_try_wait"
    /\ IF att[i].h_state = "exited"
       THEN att' = [att EXCEPT ![i].pc = "done", ![i].rx = "dropped",
                       ![i].result = ErrResult("AuthServer", <<>>, att[i].err_buf)]
       ELSE att' = [att EXCEPT ![i].pc = "url_lock_out"]
    /\ UNCHANGED remotes /\ UiUnchanged

\* The URL loop's rclone_stdout.lock(): the first argument of format!.
UrlLockStdout(i) ==
    /\ ui = "running" /\ att[i].pc = "url_lock_out"
    /\ att' = [att EXCEPT ![i].pc = "url_lock_err", ![i].out_snap = att[i].out_buf]
    /\ UNCHANGED remotes /\ UiUnchanged

\* UrlScan with the token loop entered at once, the URL never opened.
UrlScanSkipOpen(i) ==
    /\ ui = "running" /\ att[i].pc = "url_lock_err"
    /\ LET maybe_url == FindUrl(OutputLines(att[i].out_snap, att[i].err_buf))
       IN IF maybe_url # <<>>
          THEN att' = [att EXCEPT ![i].pc = "tok_recv", ![i].url = maybe_url,
                                  ![i].out_snap = <<>>]
          ELSE att' = [att EXCEPT ![i].pc = "url_try_wait", ![i].out_snap = <<>>]
    /\ UNCHANGED remotes /\ UiUnchanged

\* UrlScan with the stdout buffer alone searched.
UrlScanStdoutOnly(i) ==
    /\ ui = "running" /\ att[i].pc = "url_lock_err"
    /\ LET maybe_url == FindUrl(att[i].out_snap)
       IN IF maybe_url # <<>>
          THEN att' = [att EXCEPT ![i].pc = "open", ![i].url = maybe_url, ![i].out_snap = <<>>]
          ELSE att' = [att EXCEPT ![i].pc = "url_try_wait", ![i].out_snap = <<>>]
    /\ UNCHANGED remotes /\ UiUnchanged

\* The URL loop's rclone_stderr.lock(), and the search of the output.
UrlScan(i) ==
    /\ ui = "running" /\ att[i].pc = "url_lock_err"
    /\ LET maybe_url == FindUrl(OutputLines(att[i].out_snap, att[i].err_buf))
       IN IF maybe_url # <<>>
          THEN att' = [att EXCEPT ![i].pc = "open", ![i].url = maybe_url, ![i].out_snap = <<>>]
          ELSE att' = [att EXCEPT ![i].pc = "url_try_wait", ![i].out_snap = <<>>]
    /\ UNCHANGED remotes /\ UiUnchanged

\* open::that(&addr).unwrap()
OpenUrl(i) ==
    /\ ui = "running" /\ att[i].pc = "open"
    /\ \/ att' = [att EXCEPT ![i].pc = "tok_recv", ![i].opened = @ + 1]
       \/ att' = [att EXCEPT ![i].pc = "panicked", ![i].rx = "dropped"]
    /\ UNCHANGED remotes /\ UiUnchanged

\* TokenRecv with SIGINT sent at every poll of the channel.
TokenRecvAlwaysKill(i) ==
    /\ ui = "running" /\ att[i].pc = "tok_recv"
    /\ IF att[i].chan > 0
       THEN att' = [att EXCEPT ![i].pc = "done", ![i].chan = 0, ![i].rx = "dropped",
                       ![i].sigint = @ + 1,
                       ![i].result = ErrResult("Cancelled", <<>>, <<>>)]
       ELSE att' = [att EXCEPT ![i].pc = "tok_try_wait", ![i].sigint = @ + 1]
    /\ UNCHANGED remotes /\ UiUnchanged

\* TokenRecv with the command going on to config/create after a cancel.
TokenRecvCancelThenCommit(i) ==
    /\ ui = "running" /\ att[i].pc = "tok_recv"
    /\ IF att[i].chan > 0
       THEN att' = [att EXCEPT ![i].pc = "create", ![i].chan = 0, ![i].rx = "dropped",
                       ![i].sigint = @ + 1,
                       ![i].result = ErrResult("Cancelled", <<>>, <<>>)]
       ELSE att' = [att EXCEPT ![i].pc = "tok_try_wait"]
    /\ UNCHANGED remotes /\ UiUnchanged

\* The token loop's rx.try_recv(): a cancel request is answered with SIGINT
\* and Cancelled.
TokenRecv(i) ==
    /\ ui = "running" /\ att[i].pc = "tok_recv"
    /\ IF att[i].chan > 0
       THEN att' = [att EXCEPT ![i].pc = "done", ![i].chan = 0, ![i].rx = "dropped",
                       ![i].sigint = @ + 1,
                       ![i].result = ErrResult("Cancelled", <<>>, <<>>)]
       ELSE att' = [att EXCEPT ![i].pc = "tok_try_wait"]
    /\ UNCHANGED remotes /\ UiUnchanged

\* The token loop's process.try_wait(): Token(stderr) on a failure status,
\* the second-to-last line of stdout on success.
TokenTryWait(i) ==
    /\ ui = "running" /\ att[i].pc = "tok_try_wait"
    /\ IF att[i].h_state # "exited"
       THEN att' = [att EXCEPT ![i].pc = "tok_recv"]
       ELSE IF att[i].h_status # "ok"
       THEN att' = [att EXCEPT ![i].pc = "done", ![i].rx = "dropped",
                       ![i].result = ErrResult("Token", <<>>, att[i].err_buf)]
       ELSE IF SecondToLast(att[i].out_buf) # <<>>
       THEN att' = [att EXCEPT ![i].pc = "create", ![i].rx = "dropped",
                       ![i].token = SecondToLast(att[i].out_buf)[1]]
       ELSE att' = [att EXCEPT ![i].pc = "panicked", ![i].rx = "dropped"]
    /\ UNCHANGED remotes /\ UiUnchanged

\* ------------------------------------------------------------ the commit

\* CreateConfig with the Result of create_config dropped instead of unwrapped.
CreateConfigIgnoreErr(i) ==
    /\ ui = "running" /\ att[i].pc = "create"
    /\ \E resp \in WriteResponses :
          /\ remotes' = StoreCreate(remotes, att[i].name, ConfigItem(att[i]), resp)
          /\ att' = [att EXCEPT
                       ![i].rpc = Append(@, Call("config/create", att[i].name, resp)),
                       ![i].pc = "stat",
                       ![i].rx = "dropped"]
    /\ UiUnchanged

\* rclone::sync::create_config(..).await.unwrap()
CreateConfig(i) ==
    /\ ui = "running" /\ att[i].pc = "create"
    /\ \E resp \in WriteResponses :
          /\ remotes' = StoreCreate(remotes, att[i].name, ConfigItem(att[i]), resp)
          /\ att' = [att EXCEPT
                       ![i].rpc = Append(@, Call("config/create", att[i].name, resp)),
                       ![i].pc = IF resp.ok THEN "stat" ELSE "panicked",
                       ![i].rx = "dropped"]
    /\ UiUnchanged

\* rclone::sync::stat(&config_name, "/"): Ok(config_name) on success.
Stat(i) ==
    /\ ui = "running" /\ att[i].pc = "stat"
    /\ \E resp \in StatResponses(remotes, att[i].name) :
          att' = [att EXCEPT
                    ![i].rpc = Append(@, Call("operations/stat", att[i].name, resp)),
                    ![i].stat_error = resp.error,
                    ![i].pc = IF resp.ok THEN "done" ELSE "delete",
                    ![i].result = IF resp.ok THEN OkResult(att[i].name) ELSE @]
    /\ UNCHANGED remotes /\ UiUnchanged

\* DeleteConfig with the first word of the error text dropped from
\* ValidityUnknown.
DeleteConfigTailText(i) ==
    /\ ui = "running" /\ att[i].pc = "delete"
    /\ \E resp \in WriteResponses :
          /\ remotes' = StoreDelete(remotes, att[i].name, resp)
          /\ att' = [att EXCEPT
                       ![i].rpc = Append(@, Call("config/delete", att[i].name, resp)),
                       ![i].pc = IF resp.ok THEN "done" ELSE "panicked",
                       ![i].result =
                           IF resp.ok
                           THEN LET kind == Classify(att[i].stat_error)
                                IN ErrResult(kind,
                                             IF kind = "ValidityUnknown"
                                             THEN SubSeq(att[i].stat_error, 2, Len(att[i].stat_error))
                                             ELSE <<>>,
                                             <<>>)
                           ELSE @]
    /\ UiUnchanged

\* rclone::sync::delete_config(&config_name).await.unwrap(), then the
\* classified error.
DeleteConfig(i) ==
    /\ ui = "running" /\ att[i].pc = "delete"
    /\ \E resp \in WriteResponses :
          /\ remotes' = StoreDelete(remotes, att[i].name, resp)
          /\ att' = [att EXCEPT
                       ![i].rpc = Append(@, Call("config/delete", att[i].name, resp)),
                       ![i].pc = IF resp.ok THEN "done" ELSE "panicked",
                       ![i].result =
                           IF resp.ok
                           THEN LET kind == Classify(att[i].stat_error)
                                IN ErrResult(kind,
                                             IF kind = "ValidityUnknown"
                                             THEN att[i].stat_error ELSE <<>>,
                                             <<>>)
                           ELSE @]
    /\ UiUnchanged

\* LoginResponse::NewLogin(name), the output sent to the parent.
NewLogin(name) == [kind |-> "NewLogin", name |-> name]

\* update_cmd: the command's output reaches the component.
UpdateCmd(i) ==
    /\ ui = "running" /\ att[i].pc = "done"
    /\ att' = [att EXCEPT ![i] = Delivered(@)]
    /\ alerts' = [alerts EXCEPT !.prep_auth = FALSE, !.auth = FALSE]
    /\ show_login_spinner' = FALSE
    /\ outputs' = IF att[i].result.kind = "Ok"
                  THEN Append(outputs, NewLogin(att[i].result.val))
                  ELSE outputs
    /\ widgets' = [widgets EXCEPT !.root_sensitive = TRUE]
    /\ OthersUnchanged /\ UNCHANGED <<visible, provider, auth_sender, errors, remotes, nAtt, ui>>

\* ------------------------------------------------------ the specification

\* ------------------------------------------------------ the RPC wrappers

\* The wrappers of rclone::sync.
Wrappers ==
    {"create_config", "delete_config", "stat", "list", "mkdir", "delete", "purge", "copy"}

\* The engine command each wrapper passes to librclone::rpc.
Command(fn) ==
    CASE fn = "create_config" -> "config/create"
      [] fn = "delete_config" -> "config/delete"
      [] fn = "stat" -> "operations/stat"
      [] fn = "list" -> "operations/list"
      [] fn = "mkdir" -> "operations/mkdir"
      [] fn = "delete" -> "operations/delete"
      [] fn = "purge" -> "operations/purge"
      [] fn = "copy" -> "operations/copyfile"

\* The wrappers that name their remote through get_remote_name.
UsesRemoteName == {"stat", "list", "mkdir", "delete", "purge"}

\* Remote names and paths a wrapper is invoked with, as characters.
RemoteNames == {<<"a", "b">>, <<"a", ":">>}
Paths == {<<"d">>, <<"/", "d", "/">>}

\* get_remote_name panics on a name that ends with ':'.
RemoteNameAllowed(remote) == remote = <<>> \/ Last(remote) # ":"

\* get_remote_name: format!("{remote}:")
get_remote_name(remote) == Append(remote, ":")

\* util::strip_slashes: one '/' is taken from the front, then one from the end.
strip_slashes(string) ==
    LET stripped_prefix ==
            IF string # <<>> /\ Head(string) = "/" THEN Tail(string) ELSE string
    IN IF stripped_prefix # <<>> /\ Last(stripped_prefix) = "/"
       THEN SubSeq(stripped_prefix, 1, Len(stripped_prefix) - 1)
       ELSE stripped_prefix

\* The JSON input each wrapper builds (the config of create_config is left
\* out of it).
RpcInput(fn, remote, path) ==
    IF fn \in {"create_config", "delete_config"} THEN [name |-> remote]
    ELSE IF fn = "copy"
    THEN [srcFs |-> remote, srcRemote |-> strip_slashes(path),
          dstFs |-> remote, dstRemote |-> strip_slashes(path)]
    ELSE [fs |-> get_remote_name(remote), remote |-> strip_slashes(path)]

\* librclone::rpc answers Ok(json) or Err(json); the JSON of an error is an
\* object with the error text and the HTTP status.
RpcOk(out) == [ok |-> TRUE, json |-> out]
RpcErr(text) == [ok |-> FALSE, json |-> [error |-> text, status |-> 500]]

\* What the engine may answer to the command of wrapper fn.
RpcAnswers(fn) ==
    {RpcErr(e) : e \in {E_host, E_io, E_other}}
        \cup (IF fn = "stat" THEN {RpcOk([item |-> <<>>]), RpcOk([item |-> <<"d">>])}
              ELSE IF fn = "list" THEN {RpcOk([list |-> <<>>]), RpcOk([list |-> <<"d">>])}
              ELSE {RpcOk(<<>>)})

\* WrapperResult with the answer of the engine taken for a success.
WrapperResultAlwaysOk(fn, resp) == [kind |-> "Ok", val |-> <<>>]

\* The match on the answer that ends every wrapper: Ok(()), Ok(item) or
\* Ok(list) for Ok(json), and the RcloneError parsed from the JSON, which keeps
\* its error field alone, for Err(json).
WrapperResult(fn, resp) ==
    IF resp.ok
    THEN [kind |-> "Ok",
          val |-> IF fn = "stat" THEN resp.json.item
                  ELSE IF fn = "list" THEN resp.json.list
                  ELSE <<>>]
    ELSE [kind |-> "Err", val |-> [error |-> resp.json.error]]

\* No wrapper was invoked.
IdleWrapper == [pc |-> "idle"]

\* A wrapper is invoked: its arguments are copied. get_remote_name runs
\* inside the blocking closure, before the call.
Invoke(fn, remote, path) ==
    /\ wrapper.pc = "idle"
    /\ wrapper' = [pc |-> "spawn_blocking", fn |-> fn, remote |-> remote, path |-> path,
                   calls |-> <<>>, ret |-> <<>>]
    /\ UNCHANGED remotes /\ UNCHANGED att /\ UNCHANGED sup
    /\ UNCHANGED <<visible, provider, show_login_spinner, auth_sender, errors, widgets,
                   alerts, nAtt, outputs, ui>>

\* The blocking closure: librclone::rpc(command, input), once; or the panic
\* of get_remote_name, which the unwrap() of the join passes on.
RpcCall ==
    /\ wrapper.pc = "spawn_blocking"
    /\ IF wrapper.fn \in UsesRemoteName /\ ~RemoteNameAllowed(wrapper.remote)
       THEN wrapper' = [wrapper EXCEPT !.pc = "panicked"]
       ELSE \E resp \in RpcAnswers(wrapper.fn) :
               wrapper' = [wrapper EXCEPT
                             !.pc = "match",
                             !.calls = Append(@, [command |-> Command(wrapper.fn),
                                                  input |-> RpcInput(wrapper.fn,
                                                                     wrapper.remote,
                                                                     wrapper.path),
                                                  resp |-> resp])]
    /\ UNCHANGED remotes /\ UNCHANGED att /\ UNCHANGED sup
    /\ UNCHANGED <<visible, provider, show_login_spinner, auth_sender, errors, widgets,
                   alerts, nAtt, outputs, ui>>

\* match resp { .. }: the wrapper returns.
WrapperReturn ==
    /\ wrapper.pc = "match"
    /\ wrapper' = [wrapper EXCEPT
                     !.pc = "returned",
                     !.ret = WrapperResult(wrapper.fn, Last(wrapper.calls).resp)]
    /\ UNCHANGED remotes /\ UNCHANGED att /\ UNCHANGED sup
    /\ UNCHANGED <<visible, provider, show_login_spinner, auth_sender, errors, widgets,
                   alerts, nAtt, outputs, ui>>


\* ----------------------------------------------------------- get_remote

\* The key is in the HashMap that config/get answered with; config[key]
\* panics otherwise.
Has(config, key) == key \in DOMAIN config

\* The panic of an unwrap(), of an index of the HashMap or of unreachable!().
Panicked == [kind |-> "panic"]

\* Option::None: the type is none of those Celeste knows.
NoRemote == [kind |-> "None"]

\* The match on config["vendor"].
WebDavVendors == {"nextcloud", "owncloud", "webdav"}

\* rclone::get_remote, from the name and the answer of config/get.
get_remote(remote, config) ==
    IF ~Has(config, "type") THEN Panicked
    ELSE IF config.type \in {"dropbox", "drive", "pcloud"}
    THEN IF Has(config, "client_id") /\ Has(config, "client_secret")
         THEN [kind |-> config.type, remote_name |-> remote,
               client_id |-> config.client_id, client_secret |-> config.client_secret]
         ELSE Panicked
    ELSE IF config.type = "protondrive"
    THEN IF Has(config, "username")
         THEN [kind |-> "protondrive", remote_name |-> remote, username |-> config.username]
         ELSE Panicked
    ELSE IF config.type = "webdav"
    THEN IF /\ Has(config, "vendor") /\ config.vendor \in WebDavVendors
            /\ Has(config, "user") /\ Has(config, "pass")
         THEN [kind |-> "webdav", remote_name |-> remote, user |-> config.user,
               pass |-> config.pass, url |-> config.user, vendor |-> config.vendor]
         ELSE Panicked
    ELSE NoRemote

\* Records of type webdav as config/get gives them.
WebDavConfigs ==
    {[type |-> "webdav", url |-> u, vendor |-> v, user |-> n, pass |-> q] :
        u \in {"https://host", "https://host/dav"},
        v \in WebDavVendors \cup {"other"},
        n \in {"u", "https://host"},
        q \in {"p", "u"}}

\* Records of the other types, a record of a type Celeste does not know, a
\* record short of a key, and the answer for a name that is not stored.
OtherConfigs ==
    {[type |-> t, client_id |-> "id", client_secret |-> "secret"] :
        t \in {"dropbox", "drive", "pcloud"}}
    \cup {[type |-> "protondrive", username |-> "u"], [type |-> "s3"],
          [type |-> "dropbox"], [type |-> "webdav", url |-> "https://host"],
          [name |-> "none"]}

Configs == WebDavConfigs \cup OtherConfigs

\* The names get_remote is called with.
ConfigNames == {"ab", "cd", "ef"}

\* get_remote is called: config/get has answered.
GetRemoteCalled(remote, config) == [pc |-> "config_get", remote |-> remote, config |-> config]

\* The match of get_remote and its return.
GetRemote ==
    /\ wrapper.pc = "config_get"
    /\ wrapper' = [wrapper EXCEPT !.pc = "got_remote"] @@
                  [ret |-> get_remote(wrapper.remote, wrapper.config)]
    /\ UNCHANGED remotes /\ UNCHANGED att /\ UNCHANGED sup
    /\ UNCHANGED <<visible, provider, show_login_spinner, auth_sender, errors, widgets,
                   alerts, nAtt, outputs, ui>>

\* -------------------------------------------------------- strip_slashes

\* The longest string strip_slashes is applied to.
MaxPathLen == 5

\* How many times strip_slashes is applied, each time to its last result.
MaxStrips == 2

\* The strings of '/' and 'a' up to MaxPathLen characters.
PathStrings == UNION {[1..n -> {"/", "a"}] : n \in 0..MaxPathLen}

\* strip_slashes is to be applied to the string.
StripCalled(string) == [pc |-> "strip", string |-> string, results |-> <<>>]

\* strip_slashes is applied to the string, then to its own result.
StripSlashes ==
    /\ wrapper.pc = "strip" /\ Len(wrapper.results) < MaxStrips
    /\ wrapper' = [wrapper EXCEPT
                     !.results = Append(@, strip_slashes(IF @ = <<>> THEN wrapper.string
                                                        ELSE @[Len(@)]))]
    /\ UNCHANGED remotes /\ UNCHANGED att /\ UNCHANGED sup
    /\ UNCHANGED <<visible, provider, show_login_spinner, auth_sender, errors, widgets,
                   alerts, nAtt, outputs, ui>>

\* ------------------------------------------------------- the supervisor

\* How many times the panic hook of one child runs.
MaxPanics == 2

\* SentryPanicInfo values: a backtrace and an event.
Payloads ==
    {[backtrace |-> "bt1", event |-> "ev1"], [backtrace |-> "bt2", event |-> "ev2"]}

\* serde_json::to_string(&SentryPanicInfo { event, backtrace }): the JSON
\* object of the two fields, as its tokens.
ToJson(p) == <<"{", "backtrace", p.backtrace, "event", p.event, "}">>

\* serde_json::from_str::<SentryPanicInfo>(&content): <<>> for an error, else
\* <<the payload>>.
FromJson(content) ==
    IF /\ Len(content) = 6
       /\ content[1] = "{" /\ content[2] = "backtrace" /\ content[4] = "event"
       /\ content[6] = "}"
    THEN <<[backtrace |-> content[3], event |-> content[5]]>>
    ELSE <<>>

NoFile == [exists |-> FALSE, content |-> <<>>]
FileWith(content) == [exists |-> TRUE, content |-> content]

\* The supervisor was not started. writes, first and reads record history:
\* how many times the hook wrote the file, the first payload it wrote, and
\* how many times the supervisor read the file. launch is where the child is
\* with its launch component: "none" before run_async, "init" when
\* LaunchModel::init is to run, "initialised" once it returned its parts,
\* "panicked" if it panicked.
IdleSupervisor ==
    [pc |-> "idle", child |-> "none", file |-> NoFile, writes |-> 0, first |-> <<>>,
     reads |-> 0, content |-> <<>>, payload |-> <<>>, alert |-> "none", inbox |-> 0,
     launch |-> "none"]

LoginUnchanged ==
    UNCHANGED <<visible, provider, show_login_spinner, auth_sender, errors, widgets,
                alerts, remotes, att, nAtt, outputs, ui, wrapper>>

\* parent::start up to wait(): the temporary file is created empty and the
\* child is spawned with PANIC_FILE set; each unwrap() may panic instead.
SupStart ==
    /\ sup.pc = "idle"
    /\ \/ sup' = [sup EXCEPT !.pc = "panicked"]
       \/ sup' = [sup EXCEPT !.pc = "wait", !.child = "running", !.file = FileWith(<<>>)]
    /\ LoginUnchanged

\* The hook main() sets in the child: fs::write(&path, json) of the payload of
\* this panic over whatever the file holds.
HookWrite(p) ==
    [sup EXCEPT !.file = FileWith(ToJson(p)),
                !.writes = @ + 1,
                !.first = IF @ = <<>> THEN <<p>> ELSE @]

\* A panic in a thread or a task of the child (a command future, a reader
\* thread): the hook runs and the child goes on.
ChildPanicWorker ==
    /\ sup.child = "running" /\ sup.writes < MaxPanics
    /\ \E p \in Payloads : sup' = HookWrite(p)
    /\ LoginUnchanged

\* A panic on the main thread of the child: the hook runs and the child
\* exits with a failure status.
ChildPanicMain ==
    /\ sup.child = "running" /\ sup.writes < MaxPanics
    /\ \E p \in Payloads : sup' = [HookWrite(p) EXCEPT !.child = "exited_fail"]
    /\ LoginUnchanged

\* The child dies inside fs::write, which has truncated the file and written
\* the first k tokens of the JSON.
ChildDiesWriting ==
    /\ sup.child = "running" /\ sup.writes < MaxPanics
    /\ \E p \in Payloads : \E k \in 0..(Len(ToJson(p)) - 1) :
          sup' = [HookWrite(p) EXCEPT !.child = "exited_fail",
                                      !.file = FileWith(SubSeq(ToJson(p), 1, k))]
    /\ LoginUnchanged

\* The child's main() and start(): the hook is set, the engine is told its
\* config path, and run_async::<LaunchModel> is entered; the unwrap() of the
\* rpc may panic instead.
ChildStart ==
    /\ sup.child = "running" /\ sup.launch = "none"
    /\ \/ sup' = [sup EXCEPT !.launch = "init"]
       \/ \E p \in Payloads : sup' = [HookWrite(p) EXCEPT !.child = "exited_fail"]
    /\ LoginUnchanged

\* LaunchModel::init: its first statement is panic!, so the hook runs and
\* the child ends with a failure status; nothing after it is reached.
LaunchInit ==
    /\ sup.child = "running" /\ sup.launch = "init"
    /\ \E p \in Payloads :
          sup' = [HookWrite(p) EXCEPT !.child = "exited_fail", !.launch = "panicked"]
    /\ LoginUnchanged

\* The child is killed, or exits with a failure status, without a panic.
ChildKilled ==
    /\ sup.child = "running"
    /\ sup' = [sup EXCEPT !.child = "exited_fail"]
    /\ LoginUnchanged

\* The child exits with success.
ChildExitOk ==
    /\ sup.child = "running"
    /\ sup' = [sup EXCEPT !.child = "exited_ok"]
    /\ LoginUnchanged

\* The temporary file is removed from outside while the child runs.
FileRemoved ==
    /\ sup.child = "running" /\ sup.file.exists
    /\ sup' = [sup EXCEPT !.file = NoFile]
    /\ LoginUnchanged

\* SupWait with handle_panic called whatever the exit status.
SupWaitAlwaysHandle ==
    /\ sup.pc = "wait" /\ sup.child \in {"exited_ok", "exited_fail"}
    /\ sup' = [sup EXCEPT !.pc = "read"]
    /\ LoginUnchanged

\* wait().unwrap().success(): on success start() returns, which drops the
\* temporary file; on failure handle_panic is called.
SupWait ==
    /\ sup.pc = "wait" /\ sup.child \in {"exited_ok", "exited_fail"}
    /\ IF sup.child = "exited_ok"
       THEN sup' = [sup EXCEPT !.pc = "exited", !.file = NoFile]
       ELSE sup' = [sup EXCEPT !.pc = "read"]
    /\ LoginUnchanged

\* fs::read_to_string(path).unwrap(); the panic unwinds through start(), which
\* drops the temporary file.
SupRead ==
    /\ sup.pc = "read"
    /\ IF sup.file.exists
       THEN sup' = [sup EXCEPT !.pc = "parse", !.reads = @ + 1, !.content = sup.file.content]
       ELSE sup' = [sup EXCEPT !.pc = "panicked", !.reads = @ + 1]
    /\ LoginUnchanged

\* SupParse with a payload made up when the content does not parse.
SupParseOrDefault ==
    /\ sup.pc = "parse"
    /\ sup' = [sup EXCEPT !.pc = "run",
                          !.payload = IF FromJson(sup.content) = <<>>
                                      THEN <<[backtrace |-> "bt1", event |-> "ev1"]>>
                                      ELSE FromJson(sup.content)]
    /\ LoginUnchanged

\* serde_json::from_str(&content).unwrap()
SupParse ==
    /\ sup.pc = "parse"
    /\ IF FromJson(sup.content) = <<>>
       THEN sup' = [sup EXCEPT !.pc = "panicked", !.file = NoFile]
       ELSE sup' = [sup EXCEPT !.pc = "run", !.payload = FromJson(sup.content)]
    /\ LoginUnchanged

\* run_async::<ParentModel>(panic_info): ParentModel::init builds the alert
\* and shows it; the root window is never shown.
ParentInit ==
    /\ sup.pc = "run"
    /\ sup' = [sup EXCEPT !.pc = "presenting", !.alert = "shown"]
    /\ LoginUnchanged

\* The user answers the alert: it closes, and its response is forwarded as
\* ParentMsg::Close.
Acknowledge ==
    /\ sup.alert = "shown"
    /\ sup' = [sup EXCEPT !.alert = "closed", !.inbox = @ + 1]
    /\ LoginUnchanged

\* ParentMsg::Close is delivered: ParentModel has no update(), so the message
\* is dropped; the application goes on running with its hidden root window.
ParentUpdate ==
    /\ sup.inbox > 0
    /\ sup' = [sup EXCEPT !.inbox = @ - 1]
    /\ LoginUnchanged

\* ----------------------------------------------------------------- Init

Init ==
    /\ visible = FALSE
    /\ provider = DefaultProvider
    /\ show_login_spinner = FALSE
    /\ auth_sender = 0
    /\ errors = [f \in LoginFields |-> NoError]
    /\ widgets = [name |-> <<>>, url |-> <<>>, username |-> <<>>, password |-> <<>>,
                  totp |-> <<>>, totp_check |-> FALSE, css |-> {},
                  login_sensitive |-> FALSE, root_sensitive |-> TRUE]
    /\ alerts = [prep_auth |-> FALSE, auth |-> FALSE]
    /\ remotes = <<>>
    /\ att = [i \in Attempts |-> IdleAttempt]
    /\ nAtt = 0
    /\ outputs = <<>>
    /\ ui = "running"
    /\ wrapper = IdleWrapper
    /\ sup = IdleSupervisor

Next ==
    \/ Open
    \/ \E p \in Providers : SetProvider(p)
    \/ \E t \in NameTexts : NameChanged(t)
    \/ \E t \in UrlTexts : UrlChanged(t)
    \/ \E t \in UserTexts : UsernameChanged(t)
    \/ \E t \in PassTexts : PasswordChanged(t)
    \/ TotpToggled
    \/ \E t \in TotpTexts : TotpChanged(t)
    \/ PrepAuthenticate
    \/ PrepAuthenticateGoogle
    \/ CanStart(MaxInFlight) /\ PrepAuthButton
    \/ PrepAuthResponse
    \/ CancelAuthenticate
    \/ \E i \in Attempts :
          \/ Spawn(i)
          \/ InGetToken(i) /\ HelperWrite(i)
          \/ InGetToken(i) /\ HelperExit(i)
          \/ HelperInterrupted(i)
          \/ InGetToken(i) /\ StdoutRead(i)
          \/ InGetToken(i) /\ StderrRead(i)
          \/ UrlTryWait(i)
          \/ UrlLockStdout(i)
          \/ UrlScan(i)
          \/ OpenUrl(i)
          \/ TokenRecv(i)
          \/ TokenTryWait(i)
          \/ CreateConfig(i)
          \/ Stat(i)
          \/ DeleteConfig(i)
          \/ UpdateCmd(i)

Spec == Init /\ [][Next]_vars

\* The steps of a command future and the delivery of its output.
CommandStep(i) ==
    \/ Spawn(i)
    \/ InGetToken(i) /\ HelperWrite(i)
    \/ InGetToken(i) /\ HelperExit(i)
    \/ HelperInterrupted(i)
    \/ InGetToken(i) /\ StdoutRead(i)
    \/ InGetToken(i) /\ StderrRead(i)
    \/ UrlTryWait(i)
    \/ UrlLockStdout(i)
    \/ UrlScan(i)
    \/ OpenUrl(i)
    \/ TokenRecv(i)
    \/ TokenTryWait(i)
    \/ CreateConfig(i)
    \/ Stat(i)
    \/ DeleteConfig(i)
    \/ UpdateCmd(i)

\* The Google Drive login of a remote named "ab", with up to MaxOverlap
\* command futures running at once.
NextOverlap ==
    \/ Open
    \/ SetProvider("GoogleDrive")
    \/ NameChanged(<<"a", "b">>)
    \/ PrepAuthenticateGoogle
    \/ CanStart(MaxOverlap) /\ PrepAuthButton
    \/ PrepAuthResponse
    \/ CancelAuthenticate
    \/ \E i \in Attempts : CommandStep(i)

SpecOverlap == Init /\ [][NextOverlap]_vars

\* ------------------------------------------------ the wrappers, by inputs

\* One invocation of one wrapper, with any arguments and any answer.
NextWrappers ==
    \/ \E fn \in Wrappers, remote \in RemoteNames, path \in Paths : Invoke(fn, remote, path)
    \/ RpcCall
    \/ WrapperReturn

SpecWrappers == Init /\ [][NextWrappers]_vars

\* --------------------------------- get_remote and strip_slashes, by inputs

\* The state of Init, with the wrapper variable as given.
InitWith(w) ==
    /\ visible = FALSE
    /\ provider = DefaultProvider
    /\ show_login_spinner = FALSE
    /\ auth_sender = 0
    /\ errors = [f \in LoginFields |-> NoError]
    /\ widgets = [name |-> <<>>, url |-> <<>>, username |-> <<>>, password |-> <<>>,
                  totp |-> <<>>, totp_check |-> FALSE, css |-> {},
                  login_sensitive |-> FALSE, root_sensitive |-> TRUE]
    /\ alerts = [prep_auth |-> FALSE, auth |-> FALSE]
    /\ remotes = <<>>
    /\ att = [i \in Attempts |-> IdleAttempt]
    /\ nAtt = 0
    /\ outputs = <<>>
    /\ ui = "running"
    /\ wrapper = w
    /\ sup = IdleSupervisor

\* get_remote, for any name and any answer of config/get.
InitGetRemote == \E remote \in ConfigNames, config \in Configs : InitWith(GetRemoteCalled(remote, config))

SpecGetRemote == InitGetRemote /\ [][GetRemote]_vars

\* strip_slashes, for any string.
InitStrip == \E string \in PathStrings : InitWith(StripCalled(string))

SpecStrip == InitStrip /\ [][StripSlashes]_vars

\* ------------------------------------------------------- the supervisor

\* The steps of the supervisor process.
SupervisorStep ==
    \/ SupWait
    \/ SupRead
    \/ SupParse
    \/ ParentInit
    \/ ParentUpdate

\* One run of the supervisor, with any child.
NextSupervisor ==
    \/ SupStart
    \/ ChildPanicWorker
    \/ ChildPanicMain
    \/ ChildDiesWriting
    \/ ChildKilled
    \/ ChildExitOk
    \/ FileRemoved
    \/ Acknowledge
    \/ SupervisorStep

\* The supervisor process is scheduled: a step it can take, it takes.
SpecSupervisor == Init /\ [][NextSupervisor]_vars /\ WF_vars(SupervisorStep)

\* The steps of the child process, from main() to its launch component.
ChildStep ==
    \/ ChildStart
    \/ LaunchInit

\* One run of the supervisor with the child this program is: main() with
\* PANIC_FILE set, start(), LaunchModel.
NextChild ==
    \/ SupStart
    \/ ChildStep
    \/ ChildDiesWriting
    \/ ChildKilled
    \/ FileRemoved
    \/ Acknowledge
    \/ SupervisorStep

\* Both processes are scheduled.
SpecChild ==
    Init /\ [][NextChild]_vars /\ WF_vars(SupervisorStep) /\ WF_vars(ChildStep)

\* ---------------------------------------------- the URL search, by inputs

\* Lines of a helper's output.
L_url2 == <<"open", "http://127.0.0.1:53682/auth?state=y">>
L_mid == <<"http://127.0.0.1:53682/auth?state=x", "in", "browser">>
ScanLines == {L_url, L_url2, L_mid, L_line1, L_blank, L_fail}

\* Lines in one buffer.
MaxLines == 2

\* The buffers of at most MaxLines lines.
ScanBuffers ==
    UNION {[1..n -> ScanLines] : n \in 0..MaxLines}

\* The command future of a Dropbox login named "ab" inside the URL poll,
\* with `out` locked from the stdout buffer and `err` in the stderr buffer.
Scanning(out, err) ==
    [IdleAttempt EXCEPT
        !.pc = "url_lock_err",
        !.provider = "Dropbox",
        !.name = <<"a", "b">>,
        !.rx = "open",
        !.h_state = "running",
        !.stdout_thread = "running",
        !.stderr_thread = "running",
        !.out_buf = out,
        !.out_snap = out,
        !.err_buf = err]

\* The component while that command future runs.
InitScan ==
    /\ visible = TRUE
    /\ provider = "Dropbox"
    /\ show_login_spinner = TRUE
    /\ auth_sender = 1
    /\ errors = [f \in LoginFields |-> NoError]
    /\ widgets = [name |-> <<"a", "b">>, url |-> <<>>, username |-> <<>>,
                  password |-> <<>>, totp |-> <<>>, totp_check |-> FALSE, css |-> {},
                  login_sensitive |-> TRUE, root_sensitive |-> FALSE]
    /\ alerts = [prep_auth |-> FALSE, auth |-> TRUE]
    /\ remotes = <<>>
    /\ \E out \in ScanBuffers, err \in ScanBuffers :
          att = [i \in Attempts |-> IF i = 1 THEN Scanning(out, err) ELSE IdleAttempt]
    /\ nAtt = 1
    /\ outputs = <<>>
    /\ ui = "running"
    /\ wrapper = IdleWrapper
    /\ sup = IdleSupervisor

NextScan == \E i \in Attempts : UrlScan(i) \/ OpenUrl(i)

SpecScan == InitScan /\ [][NextScan]_vars

\* ------------------------------------------------- the helper's readers

\* The steps of get_token, of the helper and of the two reader threads. The
\* threads are never joined: they go on after get_token has returned.
SessionStep(i) ==
    \/ Spawn(i)
    \/ HelperWrite(i)
    \/ HelperExit(i)
    \/ HelperInterrupted(i)
    \/ StdoutRead(i)
    \/ StderrRead(i)
    \/ StdoutEof(i)
    \/ StderrEof(i)
    \/ UrlTryWait(i)
    \/ UrlLockStdout(i)
    \/ UrlScan(i)
    \/ OpenUrl(i)
    \/ TokenRecv(i)
    \/ TokenTryWait(i)

\* The Google Drive login of a remote named "ab", up to the end of get_token,
\* with the reader threads followed to their end.
NextReaders ==
    \/ Open
    \/ SetProvider("GoogleDrive")
    \/ NameChanged(<<"a", "b">>)
    \/ PrepAuthenticateGoogle
    \/ CanStart(MaxInFlight) /\ PrepAuthButton
    \/ PrepAuthResponse
    \/ CancelAuthenticate
    \/ \E i \in Attempts : SessionStep(i)

\* A reader thread that can take a step takes it, and the URL poll, which
\* holds the lock of the stdout buffer between its two lock() calls, goes on
\* to release it.
ReadersFairness ==
    \A i \in Attempts :
        /\ WF_vars(StdoutRead(i))
        /\ WF_vars(StderrRead(i))
        /\ WF_vars(StdoutEof(i))
        /\ WF_vars(StderrEof(i))
        /\ WF_vars(UrlScan(i))

SpecReaders == Init /\ [][NextReaders]_vars /\ ReadersFairness

\* ------------------------------------------------- the two buffer locks

\* Who holds the Mutex of rclone_stdout: the URL poll between the two lock()
\* calls of its format!, or stdout_thread inside its push_str statement.
StdoutLockHolder(i) ==
    IF att[i].pc = "url_lock_err" THEN "poll"
    ELSE IF att[i].stdout_thread = "holding" THEN "stdout_thread"
    ELSE "free"

\* Who holds the Mutex of rclone_stderr: stderr_thread inside its push_str
\* statement. A poll locks it and releases it within one statement.
StderrLockHolder(i) ==
    IF att[i].stderr_thread = "holding" THEN "stderr_thread" ELSE "free"

\* stdout_thread has a line in hand and is at rclone_stdout.lock().
StdoutWaiting(i) ==
    /\ att[i].stdout_thread = "running" /\ att[i].h_state # "none"
    /\ Len(att[i].out_buf) <
          Len(Written(Scripts[att[i].script].writes, att[i].h_pos, "out"))

\* stderr_thread has a line in hand and is at rclone_stderr.lock().
StderrWaiting(i) ==
    /\ att[i].stderr_thread = "running" /\ att[i].h_state # "none"
    /\ Len(att[i].err_buf) <
          Len(Written(Scripts[att[i].script].writes, att[i].h_pos, "err"))

\* stdout_thread: rclone_stdout.lock() returns the guard.
StdoutLock(i) ==
    /\ StdoutWaiting(i)
    /\ StdoutLockHolder(i) = "free"
    /\ att' = [att EXCEPT ![i].stdout_thread = "holding"]
    /\ UNCHANGED remotes /\ UiUnchanged

\* StdoutPush with the guard kept after the statement.
StdoutPushKeepLock(i) ==
    /\ att[i].stdout_thread = "holding"
    /\ LET w == Written(Scripts[att[i].script].writes, att[i].h_pos, "out")
       IN /\ Len(att[i].out_buf) < Len(w)
          /\ att' = [att EXCEPT ![i].out_buf = Append(@, w[Len(@) + 1])]
    /\ UNCHANGED remotes /\ UiUnchanged

\* stdout_thread: push_str under the guard, which is dropped at the end of
\* the statement.
StdoutPush(i) ==
    /\ att[i].stdout_thread = "holding"
    /\ LET w == Written(Scripts[att[i].script].writes, att[i].h_pos, "out")
       IN /\ Len(att[i].out_buf) < Len(w)
          /\ att' = [att EXCEPT ![i].out_buf = Append(@, w[Len(@) + 1]),
                                ![i].stdout_thread = "running"]
    /\ UNCHANGED remotes /\ UiUnchanged

\* stderr_thread: rclone_stderr.lock() returns the guard.
StderrLock(i) ==
    /\ StderrWaiting(i)
    /\ StderrLockHolder(i) = "free"
    /\ att' = [att EXCEPT ![i].stderr_thread = "holding"]
    /\ UNCHANGED remotes /\ UiUnchanged

\* stderr_thread: push_str under the guard, dropped at the end of the
\* statement.
StderrPush(i) ==
    /\ att[i].stderr_thread = "holding"
    /\ LET w == Written(Scripts[att[i].script].writes, att[i].h_pos, "err")
       IN /\ Len(att[i].err_buf) < Len(w)
          /\ att' = [att EXCEPT ![i].err_buf = Append(@, w[Len(@) + 1]),
                                ![i].stderr_thread = "running"]
    /\ UNCHANGED remotes /\ UiUnchanged

\* The URL loop's try_wait, which locks rclone_stderr for the error text
\* when the helper has exited.
UrlTryWaitLocking(i) ==
    /\ att[i].h_state = "exited" => StderrLockHolder(i) = "free"
    /\ UrlTryWait(i)

\* The URL loop's rclone_stdout.lock(), blocked while stdout_thread holds
\* the lock.
UrlLockStdoutLocking(i) ==
    /\ StdoutLockHolder(i) = "free"
    /\ UrlLockStdout(i)

\* The URL loop's rclone_stderr.lock(), taken with the stdout guard held;
\* both guards are dropped at the end of the format! statement.
UrlScanLocking(i) ==
    /\ StderrLockHolder(i) = "free"
    /\ UrlScan(i)

\* The lock the token loop takes once try_wait gave an exit status:
\* rclone_stderr on a failure, rclone_stdout on success.
TokenLockFree(i) ==
    IF att[i].h_status # "ok" THEN StderrLockHolder(i) = "free"
    ELSE StdoutLockHolder(i) = "free"

\* The token loop's try_wait and the lock() that follows an exit.
TokenTryWaitLocking(i) ==
    /\ att[i].h_state = "exited" => TokenLockFree(i)
    /\ TokenTryWait(i)

\* The steps of get_token with every lock() and every drop of a guard a
\* step of its own.
LockStep(i) ==
    \/ Spawn(i)
    \/ HelperWrite(i)
    \/ HelperExit(i)
    \/ HelperInterrupted(i)
    \/ StdoutLock(i)
    \/ StdoutPush(i)
    \/ StderrLock(i)
    \/ StderrPush(i)
    \/ StdoutEof(i)
    \/ StderrEof(i)
    \/ UrlTryWaitLocking(i)
    \/ UrlLockStdoutLocking(i)
    \/ UrlScanLocking(i)
    \/ OpenUrl(i)
    \/ TokenRecv(i)
    \/ TokenTryWaitLocking(i)

\* The Dropbox login of a remote named "ab", up to the end of get_token.
NextLocks ==
    \/ Open
    \/ NameChanged(<<"a", "b">>)
    \/ PrepAuthenticate
    \/ CancelAuthenticate
    \/ \E i \in Attempts : LockStep(i)

\* A thread blocked in lock() gets the Mutex if it is free again and again;
\* a thread that holds a guard goes on to drop it; the polls go on.
LocksFairness ==
    \A i \in Attempts :
        /\ SF_vars(StdoutLock(i))
        /\ SF_vars(StderrLock(i))
        /\ WF_vars(StdoutPush(i))
        /\ WF_vars(StderrPush(i))
        /\ SF_vars(UrlTryWaitLocking(i))
        /\ SF_vars(UrlLockStdoutLocking(i))
        /\ SF_vars(UrlScanLocking(i))
        /\ SF_vars(TokenTryWaitLocking(i))

SpecLocks == Init /\ [][NextLocks]_vars /\ LocksFairness

\* ------------------------------------------- the classification, by inputs

\* Phrases an error string of operations/stat is made of.
Phrases ==
    { <<>>,
      <<"Temporary", "failure", "in", "name", "resolution">>,
      <<"name", "resolution">>,
      <<"no", "such", "host">>,
      <<"The", "password", "is", "not", "correct">>,
      <<"password", "is", "not", "correct">>,
      <<"Incorrect", "login", "credentials">>,
      <<"incorrect", "login", "credentials">>,
      <<"password", "was", "incorrect">>,
      <<"this", "account", "requires", "a", "2FA", "code">>,
      <<"requires", "a", "2FA", "code">>,
      <<"connection", "refused">> }

\* Phrases in one error string.
MaxPhrases == 2

RECURSIVE PhraseSeqs(_)
PhraseSeqs(n) ==
    IF n = 0 THEN {<<>>} ELSE {a \o b : a \in Phrases, b \in PhraseSeqs(n - 1)}

\* The error strings the probe is made to fail with.
ErrorInputs == PhraseSeqs(MaxPhrases) \cup {<<"error:">> \o e : e \in PhraseSeqs(MaxPhrases)}

\* The command future of a ProtonDrive login named "ab" whose config/create
\* succeeded and whose probe failed with `error`.
ProbeFailed(error) ==
    [IdleAttempt EXCEPT
        !.pc = "delete",
        !.provider = "ProtonDrive",
        !.name = <<"a", "b">>,
        !.values = [url |-> <<>>, username |-> <<"u">>, password |-> <<"p">>, totp |-> <<>>],
        !.rx = "dropped",
        !.rpc = << Call("config/create", <<"a", "b">>, Resp(TRUE, <<>>)),
                   Call("operations/stat", <<"a", "b">>, Resp(FALSE, error)) >>,
        !.stat_error = error]

\* The component while that command future runs.
InitClassify ==
    /\ visible = TRUE
    /\ provider = "ProtonDrive"
    /\ show_login_spinner = TRUE
    /\ auth_sender = 0
    /\ errors = [f \in LoginFields |-> NoError]
    /\ widgets = [name |-> <<"a", "b">>, url |-> <<>>, username |-> <<"u">>,
                  password |-> <<"p">>, totp |-> <<>>, totp_check |-> FALSE, css |-> {},
                  login_sensitive |-> TRUE, root_sensitive |-> FALSE]
    /\ alerts = [prep_auth |-> FALSE, auth |-> FALSE]
    /\ remotes = [n \in {<<"a", "b">>} |-> ConfigItem(ProbeFailed(<<>>))]
    /\ \E e \in ErrorInputs :
          att = [i \in Attempts |-> IF i = 1 THEN ProbeFailed(e) ELSE IdleAttempt]
    /\ nAtt = 1
    /\ outputs = <<>>
    /\ ui = "running"
    /\ wrapper = IdleWrapper
    /\ sup = IdleSupervisor

NextClassify == \E i \in Attempts : DeleteConfig(i) \/ UpdateCmd(i)

SpecClassify == InitClassify /\ [][NextClassify]_vars

\* ------------------------------------------------------------- properties

\* The command future of attempt i has ended: it returned its output, or it
\* panicked.
Ended(i) == att[i].pc \in {"done", "panicked"}

\* The session of attempt i entered AwaitingToken and left it.
LeftAwaitingToken(i) ==
    /\ att[i].opened > 0
    /\ att[i].pc \in {"create", "stat", "delete", "done", "panicked"}

NoSuchHost(error) == Contains(error, <<"no", "such", "host">>)

ClassifiedKinds == {"NameResolution", "InvalidPassword", "MissingTotp", "ValidityUnknown"}

\* C1 (as claimed): whenever the command of an attempt that issued
\* config/create has ended, either it returned the name and the record is in
\* the store, or it returned an error and the record is not in the store.
C1_CommitIsAtomic ==
    \A i \in Attempts :
        (Ended(i) /\ att[i].rpc # <<>>) =>
            \/ att[i].result = OkResult(att[i].name) /\ att[i].name \in DOMAIN remotes
            \/ /\ att[i].result.kind \notin {"None", "Ok"}
               /\ att[i].name \notin DOMAIN remotes

\* C2 (as claimed): a session that left AwaitingToken after a cancel request
\* was sent to it resolved Cancelled.
C2_CancelAlwaysWins ==
    \A i \in Attempts :
        (LeftAwaitingToken(i) /\ att[i].cancel_sent) =>
            (att[i].pc = "done" /\ att[i].result.kind = "Cancelled")

\* The probe of attempt i failed, after a successful config/create, with an
\* error string containing "no such host", and the command has ended.
ProbeFailedNoSuchHost(i) ==
    /\ Ended(i)
    /\ Len(att[i].rpc) >= 2
    /\ att[i].rpc[1].ok /\ ~att[i].rpc[2].ok
    /\ NoSuchHost(att[i].stat_error)

C3_RollbackState ==
    \A i \in Attempts :
        ProbeFailedNoSuchHost(i) =>
            /\ Len(att[i].rpc) = 3
            /\ att[i].rpc[3].method = "config/delete"
            /\ att[i].rpc[3].name = att[i].name
            /\ att[i].rpc[3].ok =>
                  (att[i].pc = "done" /\ att[i].result.kind = "NameResolution")
            /\ ~att[i].rpc[3].ok =>
                  (att[i].pc = "panicked" /\ att[i].result = NoResult)

C4_CreateFailureIsReturned ==
    \A i \in Attempts :
        (att[i].rpc # <<>> /\ ~att[i].rpc[1].ok) =>
            /\ Len(att[i].rpc) = 1
            /\ att[i].pc = "done"
            /\ att[i].result.kind \notin {"None", "Ok"}

\* C5 (as claimed): a command whose config/create and operations/stat
\* succeeded has returned the name without issuing config/delete, and every
\* name returned to the parent is in the store from then on.
C5_ReturnedNameStaysListed ==
    /\ \A i \in Attempts :
          (Len(att[i].rpc) >= 2 /\ att[i].rpc[1].ok /\ att[i].rpc[2].ok) =>
              /\ att[i].pc = "done" /\ att[i].result = OkResult(att[i].name)
              /\ Len(att[i].rpc) = 2
              /\ att[i].name \in DOMAIN remotes
    /\ \A k \in 1..Len(outputs) : outputs[k].name \in DOMAIN remotes

C7_ExistingNameNeverCreated ==
    \A i \in Attempts :
        att[i].name_existed =>
            \A k \in 1..Len(att[i].rpc) : att[i].rpc[k].method # "config/create"

\* C8 (as claimed): with a provider of the WebDAV family selected, a URL whose
\* path contains "/remote.php/" has the error naming that segment, and the
\* login button is insensitive.
C8_RemotePhpRejected ==
    (is_webdav(provider) /\ UrlParses(widgets.url) /\ PathHasRemotePhp(UrlPath(widgets.url)))
        => /\ "Url" \in widgets.css
           /\ errors["Url"].detail = RemotePhpSegment(UrlPath(widgets.url))
           /\ ~widgets.login_sensitive

\* C9 (as claimed): an attempt whose command has ended, its helper spawned if
\* it needs one, has delivered exactly one completion event.
C9_OneCompletionEvent ==
    \A i \in Attempts :
        /\ att[i].events <= 1
        /\ (att[i].pc \in {"panicked", "delivered"}
              /\ (att[i].pc = "panicked" /\ needs_auth_window(att[i].provider)
                    => att[i].h_state # "none"))
             => att[i].events = 1

\* C10 (as claimed): a session that left AwaitingToken with its helper exited
\* with success and no cancel request sent has taken the second-to-last line
\* of the stdout buffer as the token.
C10_TokenIsSecondToLast ==
    \A i \in Attempts :
        (LeftAwaitingToken(i) /\ att[i].h_state = "exited" /\ att[i].h_status = "ok"
            /\ ~att[i].cancel_sent)
        => /\ Len(att[i].out_buf) >= 2
           /\ att[i].token = att[i].out_buf[Len(att[i].out_buf) - 1]

\* The session of attempt i is in AwaitingUrl.
InAwaitingUrl(i) == att[i].pc \in {"url_try_wait", "url_lock_out", "url_lock_err"}

\* C11 (as claimed): a session in AwaitingUrl whose helper has exited leaves
\* AwaitingUrl only by resolving AuthServer with the stderr buffer, never
\* towards the URL opener.
C11_ExitBeforeUrlFails ==
    [][\A i \in Attempts :
          (InAwaitingUrl(i) /\ att[i].h_state = "exited" /\ ~InAwaitingUrl(i)') =>
              /\ att'[i].pc = "done"
              /\ att'[i].result = ErrResult("AuthServer", <<>>, att[i].err_buf)]_vars

\* C11 (amended): when the URL loop's try_wait finds the helper exited, the
\* session resolves AuthServer with the stderr buffer as it is then; a session
\* that resolved AuthServer never invoked the opener, never had a URL or a
\* token, and issued no RPC.
C11_ObservedExitFails ==
    /\ [][\A i \in Attempts :
             (att[i].pc = "url_try_wait" /\ att[i].h_state = "exited"
                 /\ att'[i].pc # "url_try_wait") =>
                 /\ att'[i].pc = "done"
                 /\ att'[i].result = ErrResult("AuthServer", <<>>, att[i].err_buf)]_vars
    /\ [](\A i \in Attempts :
             att[i].result.kind = "AuthServer" =>
                 /\ att[i].opened = 0 /\ att[i].url = <<>>
                 /\ att[i].token = <<>> /\ att[i].rpc = <<>>)

\* C11 witness: a session resolved AuthServer with a non-empty stderr text.
C11_Witness ==
    \E i \in Attempts :
        /\ att[i].pc = "done" /\ att[i].result.kind = "AuthServer"
        /\ att[i].result.lines = <<L_fail>>
        /\ att[i].opened = 0

\* C12 (as claimed): a session that left AwaitingToken on the exit of its
\* helper, not on a cancel request, has a token if and only if the exit status
\* is success, and has otherwise resolved Token with the stderr buffer.
C12_SucceededIffExitSuccess ==
    \A i \in Attempts :
        (LeftAwaitingToken(i) /\ att[i].h_state = "exited"
            /\ att[i].result.kind # "Cancelled") =>
            /\ att[i].h_status = "ok" => att[i].token # <<>>
            /\ att[i].h_status # "ok" =>
                  /\ att[i].token = <<>> /\ att[i].pc = "done"
                  /\ att[i].result = ErrResult("Token", <<>>, att[i].err_buf)

\* C13 (as claimed): a cancel request was only ever sent to a session whose
\* URL had been found and opened.
C13_CancelOnlyInAwaitingToken ==
    \A i \in Attempts : att[i].cancel_sent => att[i].opened > 0

\* C14 (as claimed): at most one command future runs at a time, and a cancel
\* request is only in the channel of the attempt started last.
C14_OneSessionInFlight ==
    /\ Cardinality({i \in Attempts : InFlight(i)}) <= 1
    /\ \A i \in Attempts : att[i].chan > 0 => i = nAtt

\* The providers get_token has a client for.
OAuthProviders == {"Dropbox", "GoogleDrive", "PCloud"}

\* C15, the state part: only an attempt for Dropbox, GoogleDrive or PCloud
\* has a helper, is in get_token, opened a URL, has a token or was sent a
\* cancel request; such an attempt issues config/create only after its helper
\* exited with success and gave a token; an attempt for another provider
\* starts at config/create.
C15_HelperState ==
    \A i \in Attempts :
        att[i].pc \notin {"idle", "delivered"} =>
            /\ (\/ att[i].h_state # "none" \/ att[i].pc = "spawn" \/ InGetToken(i)
                \/ att[i].opened > 0 \/ att[i].token # <<>> \/ att[i].cancel_sent)
                  => att[i].provider \in OAuthProviders
            /\ (att[i].provider \in OAuthProviders
                  /\ (att[i].rpc # <<>> \/ att[i].pc = "create"))
                  => (att[i].h_state = "exited" /\ att[i].h_status = "ok"
                        /\ att[i].token # <<>>)
            /\ att[i].provider \notin OAuthProviders =>
                  (att[i].rpc # <<>> \/ att[i].pc = "create")

\* C15: the state part; the values an attempt starts with are the texts of
\* the widgets (the URL with the fixed suffix for Nextcloud and Owncloud); and
\* the record a successful config/create stores for a provider without helper
\* holds those values.
C15_HelperIffOAuth ==
    /\ []C15_HelperState
    /\ [][\A i \in Attempts :
             (att[i].pc = "idle" /\ att'[i].pc # "idle") =>
                 /\ att'[i].provider = provider
                 /\ att'[i].values.username = widgets.username
                 /\ att'[i].values.password = widgets.password
                 /\ att'[i].values.totp = widgets.totp
                 /\ att'[i].values.url =
                       IF provider \in {"Nextcloud", "Owncloud"}
                       THEN widgets.url \o <<"remote.php", "dav", "files">> \o widgets.username
                       ELSE widgets.url]_vars
    /\ [][\A i \in Attempts :
             (att[i].pc = "create" /\ att'[i].pc = "stat"
                 /\ att[i].provider \notin OAuthProviders) =>
                 LET c == remotes'[att[i].name]
                 IN /\ c.user = att[i].values.username
                    /\ c.pass = att[i].values.password
                    /\ c.token = <<>>
                    /\ is_webdav(att[i].provider) => c.url = att[i].values.url
                    /\ att[i].provider = "ProtonDrive" => c.totp = att[i].values.totp]_vars

\* C15 witness: a Nextcloud attempt without helper stored its record.
C15_Witness ==
    \E i \in Attempts :
        /\ att[i].provider = "Nextcloud" /\ att[i].h_state = "none"
        /\ att[i].pc = "stat"
        /\ att[i].name \in DOMAIN remotes
        /\ remotes[att[i].name].user = <<"u">>
        /\ remotes[att[i].name].url = <<"https://host", "remote.php", "dav", "files", "u">>

\* The command of attempt i returned the classification of its failed probe.
Classified(i) == att[i].pc = "done" /\ Len(att[i].rpc) = 3

\* The rules of the classification, each by itself.
MatchesNameResolution(error) ==
    \/ Contains(error, <<"Temporary", "failure", "in", "name", "resolution">>)
    \/ Contains(error, <<"no", "such", "host">>)

MatchesInvalidPassword(error) ==
    \/ Contains(error, <<"The", "password", "is", "not", "correct">>)
    \/ Contains(error, <<"Incorrect", "login", "credentials">>)
    \/ Contains(error, <<"password", "was", "incorrect">>)

MatchesMissingTotp(error) ==
    Contains(error, <<"this", "account", "requires", "a", "2FA", "code">>)

\* C16 (as claimed): a probe error that contains "name resolution" or
\* "no such host" is classified NameResolution.
C16_NameResolutionAnyCase ==
    \A i \in Attempts :
        (Classified(i)
            /\ (\/ Contains(att[i].stat_error, <<"name", "resolution">>)
                \/ Contains(att[i].stat_error, <<"no", "such", "host">>)))
        => att[i].result.kind = "NameResolution"

\* C16 (amended): a probe error that contains "Temporary failure in name
\* resolution" or "no such host" is classified NameResolution.
C16_NameResolution ==
    \A i \in Attempts :
        (Classified(i) /\ MatchesNameResolution(att[i].stat_error))
        => att[i].result.kind = "NameResolution"

\* C16 witness: an error with "Temporary failure in name resolution" and with
\* a password phrase was classified NameResolution.
C16_Witness ==
    \E i \in Attempts :
        /\ Classified(i) /\ att[i].result.kind = "NameResolution"
        /\ Contains(att[i].stat_error, <<"Temporary", "failure", "in", "name", "resolution">>)
        /\ Contains(att[i].stat_error, <<"The", "password", "is", "not", "correct">>)
        /\ ~NoSuchHost(att[i].stat_error)

\* C17 (as claimed): a probe error that contains neither "name resolution" nor
\* "no such host", and contains "password is not correct", "incorrect login
\* credentials" or "password was incorrect", is classified InvalidPassword.
C17_InvalidPasswordAnyCase ==
    \A i \in Attempts :
        (Classified(i)
            /\ ~Contains(att[i].stat_error, <<"name", "resolution">>)
            /\ ~Contains(att[i].stat_error, <<"no", "such", "host">>)
            /\ (\/ Contains(att[i].stat_error, <<"password", "is", "not", "correct">>)
                \/ Contains(att[i].stat_error, <<"incorrect", "login", "credentials">>)
                \/ Contains(att[i].stat_error, <<"password", "was", "incorrect">>)))
        => att[i].result.kind = "InvalidPassword"

\* C17 (amended): a probe error that matches no name resolution rule and
\* contains "The password is not correct", "Incorrect login credentials" or
\* "password was incorrect", spelled so, is classified InvalidPassword.
C17_InvalidPassword ==
    \A i \in Attempts :
        (Classified(i) /\ ~MatchesNameResolution(att[i].stat_error)
            /\ MatchesInvalidPassword(att[i].stat_error))
        => att[i].result.kind = "InvalidPassword"

\* C17 witness: an error with "Incorrect login credentials" and with the 2FA
\* phrase was classified InvalidPassword.
C17_Witness ==
    \E i \in Attempts :
        /\ Classified(i) /\ att[i].result.kind = "InvalidPassword"
        /\ Contains(att[i].stat_error, <<"Incorrect", "login", "credentials">>)
        /\ MatchesMissingTotp(att[i].stat_error)

\* C18 (as claimed): a probe error that matches none of the phrases of C16
\* and C17 and contains "requires a 2FA code" is classified MissingTotp.
C18_MissingTotpShortPhrase ==
    \A i \in Attempts :
        (Classified(i)
            /\ ~Contains(att[i].stat_error, <<"name", "resolution">>)
            /\ ~Contains(att[i].stat_error, <<"no", "such", "host">>)
            /\ ~Contains(att[i].stat_error, <<"password", "is", "not", "correct">>)
            /\ ~Contains(att[i].stat_error, <<"incorrect", "login", "credentials">>)
            /\ ~Contains(att[i].stat_error, <<"Incorrect", "login", "credentials">>)
            /\ ~Contains(att[i].stat_error, <<"password", "was", "incorrect">>)
            /\ Contains(att[i].stat_error, <<"requires", "a", "2FA", "code">>))
        => att[i].result.kind = "MissingTotp"

\* C18 (amended): a probe error that matches no name resolution rule and no
\* password rule and contains "this account requires a 2FA code" is
\* classified MissingTotp.
C18_MissingTotp ==
    \A i \in Attempts :
        (Classified(i) /\ ~MatchesNameResolution(att[i].stat_error)
            /\ ~MatchesInvalidPassword(att[i].stat_error)
            /\ MatchesMissingTotp(att[i].stat_error))
        => att[i].result.kind = "MissingTotp"

\* C18 witness: an error with "this account requires a 2FA code" after
\* another word was classified MissingTotp.
C18_Witness ==
    \E i \in Attempts :
        /\ Classified(i) /\ att[i].result.kind = "MissingTotp"
        /\ att[i].stat_error[1] = "error:"

\* C19: the classification returned is one of the four kinds, the kind of the
\* first rule that matches in the order NameResolution, InvalidPassword,
\* MissingTotp; it is ValidityUnknown exactly when no rule matches, and then,
\* and only then, carries the whole error text.
C19_ClassificationTotal ==
    \A i \in Attempts :
        Classified(i) =>
            LET e == att[i].stat_error
                kind == att[i].result.kind
            IN /\ kind \in ClassifiedKinds
               /\ MatchesNameResolution(e) => kind = "NameResolution"
               /\ (~MatchesNameResolution(e) /\ MatchesInvalidPassword(e))
                     => kind = "InvalidPassword"
               /\ (~MatchesNameResolution(e) /\ ~MatchesInvalidPassword(e)
                     /\ MatchesMissingTotp(e)) => kind = "MissingTotp"
               /\ kind = "ValidityUnknown" <=>
                     (~MatchesNameResolution(e) /\ ~MatchesInvalidPassword(e)
                        /\ ~MatchesMissingTotp(e))
               /\ att[i].result.text = IF kind = "ValidityUnknown" THEN e ELSE <<>>
               /\ att[i].result.val = <<>> /\ att[i].result.lines = <<>>

\* C19 witness: an error no rule matches was returned whole in
\* ValidityUnknown.
C19_Witness ==
    \E i \in Attempts :
        /\ Classified(i)
        /\ att[i].result = ErrResult("ValidityUnknown",
                                     <<"error:", "name", "resolution", "connection", "refused">>,
                                     <<>>)

IsPrefix(a, b) == Len(a) <= Len(b) /\ SubSeq(b, 1, Len(a)) = a

\* C20, the state part: each buffer is a prefix of the lines the helper wrote
\* to its stream, in the order it wrote them, and the value of the stdout
\* buffer the URL loop read is a prefix of that buffer.
C20_BufferState ==
    \A i \in Attempts :
        att[i].h_state # "none" =>
            /\ IsPrefix(att[i].out_buf,
                        Written(Scripts[att[i].script].writes, att[i].h_pos, "out"))
            /\ IsPrefix(att[i].err_buf,
                        Written(Scripts[att[i].script].writes, att[i].h_pos, "err"))
            /\ IsPrefix(att[i].out_snap, att[i].out_buf)

\* C20: the state part; and, until the command's output is handled and the
\* buffers are dropped, every step leaves each buffer a prefix of its next
\* value.
C20_BuffersOnlyGrow ==
    /\ []C20_BufferState
    /\ [][\A i \in Attempts :
             att'[i].pc # "delivered" =>
                 /\ IsPrefix(att[i].out_buf, att'[i].out_buf)
                 /\ IsPrefix(att[i].err_buf, att'[i].err_buf)]_vars

\* C20 witness: both buffers hold every line of a helper that wrote three
\* lines to stdout and one to stderr.
C20_Witness ==
    \E i \in Attempts :
        /\ att[i].out_buf = <<L_line1, L_token, L_blank>>
        /\ att[i].err_buf = <<L_url>>

\* Both reader threads of attempt i have returned.
ReadersEnded(i) == att[i].stdout_thread = "ended" /\ att[i].stderr_thread = "ended"

\* C21: once the helper of a session has exited, which closes its two pipes,
\* both reader threads of the session end, whatever the outcome of the
\* session and without any cancellation of the threads (unless the process
\* itself died of a panic of the main thread).
C21_ReadersTerminate ==
    \A i \in Attempts :
        (att[i].h_state = "exited") ~> (ReadersEnded(i) \/ ui = "panicked")

\* C21 witness: a session that failed because the helper exited before any
\* URL, never cancelled, whose two readers have ended.
C21_Witness ==
    \E i \in Attempts :
        /\ att[i].pc = "done" /\ att[i].result.kind = "AuthServer"
        /\ ~att[i].cancel_sent
        /\ ReadersEnded(i)

\* The invocation of a wrapper has ended.
WrapperEnded == wrapper.pc \in {"returned", "panicked"}

\* What C22 says of an invocation with `calls` engine calls that returned
\* `ret`: one call, of the wrapper's command, and Err with the error text of
\* the engine exactly when the call failed.
OneCallVerbatim(w) ==
    /\ Len(w.calls) = 1
    /\ w.calls[1].command = Command(w.fn)
    /\ w.pc = "returned"
    /\ (w.ret.kind = "Err") <=> ~w.calls[1].resp.ok
    /\ w.ret.kind = "Err" => w.ret.val.error = w.calls[1].resp.json.error

\* C22 as stated: every invocation of a wrapper that has ended made exactly
\* one engine call and returned Err with the engine's error text iff the call
\* failed.
C22_OneCallVerbatim == WrapperEnded => OneCallVerbatim(wrapper)

\* C22, amended: no invocation ever makes a second engine call; an
\* invocation that returned made exactly one call, of its own command, and its
\* result is Err with the engine's error text iff the call failed; an
\* invocation ends without a result, and without any engine call, exactly when
\* its wrapper goes through get_remote_name and the remote name ends with ':'.
C22_OneCallVerbatimIfNamed ==
    /\ wrapper.pc # "idle" => Len(wrapper.calls) <= 1
    /\ wrapper.pc = "returned" => OneCallVerbatim(wrapper)
    /\ wrapper.pc = "panicked" =>
          /\ wrapper.calls = <<>>
          /\ wrapper.fn \in UsesRemoteName /\ ~RemoteNameAllowed(wrapper.remote)
    /\ (WrapperEnded /\ (wrapper.fn \notin UsesRemoteName \/ RemoteNameAllowed(wrapper.remote)))
          => wrapper.pc = "returned"

\* C22 witness: stat returned the error of its one failed call.
C22_Witness ==
    /\ wrapper.pc = "returned" /\ wrapper.fn = "stat"
    /\ Len(wrapper.calls) = 1 /\ ~wrapper.calls[1].resp.ok
    /\ wrapper.ret = [kind |-> "Err", val |-> [error |-> E_host]]

\* The child has exited.
ChildExited == sup.child \in {"exited_ok", "exited_fail"}

\* The supervisor has nothing left to do for its child.
SupervisorSettled == ChildExited /\ sup.pc \in {"exited", "panicked", "presenting"}

\* ParentModel was launched: the crash presentation was started.
PresentationStarted == sup.pc \in {"run", "presenting"} \/ sup.alert # "none"

\* C23 as stated: the supervisor moves on only once the child has exited, and
\* it reads the file and starts the presentation exactly when the child
\* failed; after a success it reads nothing and presents nothing.
C23_PresentIffFailure ==
    /\ sup.pc \in {"read", "parse", "run", "presenting", "exited"} => ChildExited
    /\ SupervisorSettled =>
          ((sup.reads = 1 /\ PresentationStarted) <=> sup.child = "exited_fail")
    /\ sup.child = "exited_ok" => (sup.reads = 0 /\ ~PresentationStarted)

\* C23, amended: the supervisor moves on only once the child has exited; it
\* reads the file, once, exactly when the child failed; it starts the
\* presentation exactly when the child failed and the text it read parses as
\* a payload; after a success it reads nothing and presents nothing.
C23_ReadIffFailure ==
    /\ sup.pc \in {"read", "parse", "run", "presenting", "exited"} => ChildExited
    /\ sup.reads > 0 => sup.child = "exited_fail"
    /\ SupervisorSettled => ((sup.reads = 1) <=> sup.child = "exited_fail")
    /\ SupervisorSettled =>
          (PresentationStarted <=>
              (sup.child = "exited_fail" /\ sup.reads = 1 /\ FromJson(sup.content) # <<>>))
    /\ PresentationStarted => sup.child = "exited_fail"
    /\ sup.child = "exited_ok" => (sup.reads = 0 /\ ~PresentationStarted)

\* C23 witness: the child failed, the file was read once and the
\* presentation is shown.
C23_Witness ==
    /\ sup.child = "exited_fail" /\ sup.pc = "presenting"
    /\ sup.reads = 1 /\ sup.alert = "shown"

\* The child failed and the supervisor is about to read a file that is
\* absent, empty or not a serialized payload.
BadHandoff ==
    /\ sup.pc = "read" /\ sup.child = "exited_fail"
    /\ (~sup.file.exists \/ FromJson(sup.file.content) = <<>>)

\* C24: when the child failed and the file is absent, empty or not a
\* serialized payload, the supervisor ends panicked (a message on stderr and a
\* failure exit status), without having started the presentation; it never
\* exits with success after a failed child, and a payload it presents is the
\* one parsed from the text it read.
C24_BadHandoffEscalates ==
    /\ [](sup.pc = "exited" => sup.child = "exited_ok")
    /\ []((SupervisorSettled /\ sup.child = "exited_fail" /\ FromJson(sup.content) = <<>>)
            => (sup.pc = "panicked" /\ ~PresentationStarted /\ sup.payload = <<>>))
    /\ [](sup.payload # <<>> => sup.payload = FromJson(sup.content))
    /\ (BadHandoff ~> (sup.pc = "panicked" /\ ~PresentationStarted))

\* C24 witness: the child died while its hook was writing, and the
\* supervisor panicked on the truncated text.
C24_Witness ==
    /\ sup.pc = "panicked" /\ sup.child = "exited_fail"
    /\ sup.reads = 1 /\ sup.content = <<"{", "backtrace", "bt1">>
    /\ sup.alert = "none"

\* C25: the hook writes the file at most once and a later panic leaves the
\* payload of the first one in the file; the supervisor reads the file at most
\* once, after the child has exited.
C25_HandoffWrittenOnce ==
    /\ sup.writes <= 1
    /\ (sup.first # <<>> /\ sup.file.exists /\ FromJson(sup.file.content) # <<>>)
          => FromJson(sup.file.content) = sup.first
    /\ sup.reads <= 1
    /\ sup.reads > 0 => ChildExited

\* C27: once the user has answered the alert of the presentation, the
\* supervisor process terminates.
C27_AcknowledgedTerminates ==
    (sup.alert = "closed") ~> (sup.pc \in {"exited", "panicked"})

\* The first line of `buf` that holds the marker, as <<line>>, or <<>>.
FirstMarked(buf) ==
    IF \E k \in 1..Len(buf) : HasMarker(buf[k])
    THEN <<buf[CHOOSE j \in 1..Len(buf) :
                   HasMarker(buf[j]) /\ \A m \in 1..(j - 1) : ~HasMarker(buf[m])]>>
    ELSE <<>>

\* The URL C30 describes: the last word of the first marked line of the
\* stdout buffer, else of the stderr buffer.
ExpectedUrl(out, err) ==
    IF FirstMarked(out) # <<>> THEN <<Last(FirstMarked(out)[1])>>
    ELSE IF FirstMarked(err) # <<>> THEN <<Last(FirstMarked(err)[1])>>
    ELSE <<>>

\* C30: the search of the URL poll sees the lines of the stdout buffer, one
\* empty line, and the lines of the stderr buffer, each line as it was read
\* (no two lines merged); it leaves the poll exactly when one of them holds
\* the marker, with the last word of the first such line, stdout first, as the
\* URL.
C30_UrlIsLastWordOfFirstMarked ==
    [][\A i \in Attempts :
          (att[i].pc = "url_lock_err" /\ att'[i].pc # "url_lock_err") =>
              LET out == att[i].out_snap
                  err == att[i].err_buf
              IN /\ TextLines(out, err) = OutputLines(out, err)
                 /\ OutputLines(out, err) = out \o <<L_blank>> \o err
                 /\ (att'[i].pc = "open") <=> (ExpectedUrl(out, err) # <<>>)
                 /\ att'[i].pc = "open" => att'[i].url = ExpectedUrl(out, err)]_vars

\* C30 witness: the marker is in the second line of stdout and in the first
\* of stderr, and the URL of the stdout line was found.
C30_Witness ==
    \E i \in Attempts :
        /\ att[i].pc = "open"
        /\ att[i].out_buf = <<L_line1, L_url2>>
        /\ att[i].err_buf = <<L_url, L_fail>>
        /\ att[i].url = <<"http://127.0.0.1:53682/auth?state=y">>

\* The command future of attempt i is in the token loop (AwaitingToken).
InAwaitingToken(i) == att[i].pc \in {"tok_recv", "tok_try_wait"}

\* C28: a session sends SIGINT to its helper at most once; the step that
\* sends it is a step of that session alone, taken in the token loop with a
\* cancel request in the session's channel; a session that has sent it ended
\* Cancelled, without a token and without a result made of an observed exit;
\* and an exit of the helper is observed (try_wait) by a step of its own
\* session alone.
C28_SignalOnlyOnCancel ==
    /\ [](\A i \in Attempts :
             /\ att[i].sigint <= 1
             /\ (att[i].sigint > 0 /\ att[i].pc # "delivered") =>
                   /\ att[i].cancel_sent /\ att[i].opened = 1
                   /\ att[i].pc = "done"
                   /\ att[i].result.kind = "Cancelled" /\ att[i].token = <<>>)
    /\ [][\A i \in Attempts :
             att'[i].sigint > att[i].sigint =>
                 /\ InAwaitingToken(i) /\ att[i].sigint = 0
                 /\ att[i].chan > 0 /\ att[i].cancel_sent
                 /\ att'[i].chan = 0
                 /\ \A j \in Attempts \ {i} : att'[j] = att[j]]_vars
    /\ [][\A i \in Attempts :
             (att[i].result = NoResult
                /\ att'[i].result.kind \in {"AuthServer", "Token"}) =>
                 /\ att[i].h_state = "exited" /\ att[i].sigint = 0
                 /\ \A j \in Attempts \ {i} : att'[j] = att[j]]_vars

\* C28 witness: of two sessions running at once, one was cancelled and sent
\* SIGINT to its helper, while the helper of the other was sent nothing.
C28_Witness ==
    \E i, j \in Attempts :
        /\ i # j
        /\ att[i].sigint = 1 /\ att[i].result.kind = "Cancelled"
        /\ InGetToken(j) /\ att[j].h_state = "running" /\ att[j].sigint = 0

\* The place of a command future in the order of the session states:
\* Launching, AwaitingUrl, the URL found, AwaitingToken, and the end of
\* get_token (the commit, the result, the panic, the delivery).
Phase(pc) ==
    CASE pc = "idle" -> 0
      [] pc = "spawn" -> 1
      [] pc \in {"url_try_wait", "url_lock_out", "url_lock_err"} -> 2
      [] pc = "open" -> 3
      [] pc \in {"tok_recv", "tok_try_wait"} -> 4
      [] OTHER -> 5

\* C29, the state part: the opener was invoked at most once, on the URL that
\* was found; a session in or past the token loop invoked it exactly once; a
\* session that ended Cancelled or has a token went through the token loop;
\* and a session issues no RPC before it has its token.
C29_SessionState ==
    \A i \in Attempts :
        /\ att[i].opened <= 1
        /\ att[i].opened = 1 => att[i].url # <<>>
        /\ InAwaitingToken(i) => (att[i].opened = 1 /\ att[i].token = <<>>)
        /\ (att[i].result.kind = "Cancelled" \/ att[i].token # <<>>) => att[i].opened = 1
        /\ (att[i].provider \in OAuthProviders /\ att[i].rpc # <<>>) =>
              (att[i].token # <<>> /\ att[i].rpc[1].method = "config/create")
        /\ (att[i].provider \in OAuthProviders /\ Phase(att[i].pc) < 4) =>
              (att[i].token = <<>> /\ att[i].rpc = <<>>
                 /\ att[i].result.kind \notin {"Cancelled", "Ok"})

\* C29: the state part; a command future never goes back in the order of the
\* session states; the URL poll is entered from the launch only, the URL is
\* opened from the URL poll only, the token loop is entered by the step that
\* opens the URL only; Cancelled and the token come from the token loop only;
\* and the first RPC of a session, config/create, is issued with the token
\* held.
C29_SessionOrder ==
    /\ []C29_SessionState
    /\ [][\A i \in Attempts :
             att'[i].pc # "delivered" =>
                 /\ Phase(att'[i].pc) >= Phase(att[i].pc)
                 /\ (Phase(att'[i].pc) = 2 /\ Phase(att[i].pc) # 2) => att[i].pc = "spawn"
                 /\ (Phase(att'[i].pc) = 3 /\ Phase(att[i].pc) # 3) =>
                       (att[i].pc = "url_lock_err" /\ att'[i].url # <<>>)
                 /\ (Phase(att'[i].pc) = 4 /\ Phase(att[i].pc) # 4) =>
                       (att[i].pc = "open" /\ att'[i].opened = att[i].opened + 1)
                 /\ att'[i].opened # att[i].opened =>
                       (att[i].pc = "open" /\ att'[i].pc = "tok_recv")
                 /\ (att'[i].result.kind = "Cancelled" /\ att[i].result.kind # "Cancelled")
                       => InAwaitingToken(i)
                 /\ (att'[i].token # <<>> /\ att[i].token = <<>>) => InAwaitingToken(i)
                 /\ (att[i].provider \in OAuthProviders
                       /\ att[i].rpc = <<>> /\ att'[i].rpc # <<>>) =>
                       (att[i].token # <<>> /\ att[i].pc = "create")]_vars

\* C29 witness: a Google Drive session went through every state and its
\* command has issued config/create.
C29_Witness ==
    \E i \in Attempts :
        /\ att[i].provider = "GoogleDrive"
        /\ att[i].opened = 1 /\ att[i].token # <<>>
        /\ att[i].pc = "stat" /\ Len(att[i].rpc) = 1

\* Everything the helper of attempt i has written to its stdout pipe.
StdoutWritten(i) == Written(Scripts[att[i].script].writes, att[i].h_pos, "out")

\* C31: the token a session holds is the second-to-last line of everything
\* its helper wrote to stdout, and it was taken from a stdout buffer that held
\* all of it.
C31_TokenFromWholeStdout ==
    \A i \in Attempts :
        att[i].token # <<>> =>
            /\ Len(StdoutWritten(i)) >= 2
            /\ att[i].token = StdoutWritten(i)[Len(StdoutWritten(i)) - 1]
            /\ att[i].pc = "create" => att[i].out_buf = StdoutWritten(i)

\* Everything the helper of attempt i has written to its stderr pipe.
StderrWritten(i) == Written(Scripts[att[i].script].writes, att[i].h_pos, "err")

\* Some line of `buf` holds the marker.
AnyMarked(buf) == \E k \in 1..Len(buf) : HasMarker(buf[k])

SessionFailures == {"Cancelled", "AuthServer", "Token"}

\* C33: an attempt whose session resolved Cancelled, AuthServer or Token has
\* issued no RPC and has ended; and the engine's set of remotes changes only
\* in a step in which an attempt without such a result issues an RPC.
C33_FailedSessionNoRpc ==
    /\ [](\A i \in Attempts :
             att[i].result.kind \in SessionFailures =>
                 (att[i].rpc = <<>> /\ att[i].pc = "done"))
    /\ [][\A i \in Attempts :
             att[i].result.kind \in SessionFailures =>
                 (att'[i].rpc = <<>> /\ att'[i].pc \in {"done", "delivered"})]_vars
    /\ [][remotes' # remotes =>
             \E j \in Attempts :
                 /\ att[j].result.kind \notin SessionFailures
                 /\ Len(att'[j].rpc) = Len(att[j].rpc) + 1]_vars

\* C33 witness: a session resolved Token, for a name that was never stored.
C33_Witness ==
    \E i \in Attempts :
        /\ att[i].result.kind = "Token" /\ att[i].pc = "done"
        /\ att[i].rpc = <<>> /\ att[i].name \notin DOMAIN remotes

\* C34 (as claimed): every CancelAuthenticate the component processes finds
\* auth_sender present and the receiver of its channel not dropped.
C34_CancelFindsLiveChannel ==
    [][CancelAuthenticate => (auth_sender # 0 /\ att[auth_sender].rx = "open")]_vars

\* C35 (as claimed): when an attempt spawns its helper, no helper of a
\* session that resolved Cancelled (one that was sent SIGINT) is still running.
C35_CancelledHelperGoneBeforeSpawn ==
    [][\A i \in Attempts :
          (att[i].h_state = "none" /\ att'[i].h_state = "running") =>
              \A j \in Attempts \ {i} :
                  ~(att[j].h_state = "running" /\ att[j].sigint > 0)]_vars

C37_ChildInitialisesAndExitsOk ==
    <>(/\ sup.launch = "initialised" /\ sup.child = "exited_ok"
       /\ sup.pc = "exited" /\ sup.reads = 0)

\* C38 (as claimed): for a stored record of type webdav, get_remote returns
\* a WebDavRemote with the url, the user and the pass of the record.
C38_WebDavFieldsRoundTrip ==
    (wrapper.pc = "got_remote" /\ wrapper.config \in WebDavConfigs
       /\ wrapper.config.vendor \in WebDavVendors) =>
        /\ wrapper.ret.kind = "webdav"
        /\ wrapper.ret.url = wrapper.config.url
        /\ wrapper.ret.user = wrapper.config.user
        /\ wrapper.ret.pass = wrapper.config.pass

\* C39 (as claimed): the result of strip_slashes neither starts nor ends with
\* '/', and strip_slashes applied to it gives it back.
C39_StripSlashesStripsAll ==
    /\ \A k \in 1..Len(wrapper.results) :
          LET r == wrapper.results[k]
          IN r # <<>> => (r[1] # "/" /\ r[Len(r)] # "/")
    /\ Len(wrapper.results) = 2 => wrapper.results[2] = wrapper.results[1]

====
